---- MODULE Spec2Model ----
(***************************************************************************)
(* Face attendance engine: the attendance session store (markAttendance),  *)
(* the identity matcher (processMultiAttendance) and the scanning loop of  *)
(* CameraScreen (startScanning / stopScanning / captureAndProcess).        *)
(* Further specifications cover the detector's suppression step (nms),    *)
(* registration (registerFace), the employees table (insertEmployee),      *)
(* vector normalisation (l2Normalize), the face loop of one photo, the     *)
(* detector's output (parseOutput / detectFaces) and averageEmbedding.     *)
(*                                                                         *)
(* Time is Date.now() in milliseconds.  Similarity scores are hundredths   *)
(* (0.82 is 82).  A nullable value is <<>> (null) or <<v>>.                *)
(***************************************************************************)
EXTENDS Integers, Sequences, FiniteSets, TLC

VARIABLES
  now,          \* the device clock, Date.now() / new Date()
  employees,    \* rows of table employees, in row order
  attendance,   \* rows of table attendance; a row's id is its position
  call,         \* the markAttendance invocation made by the last step, if any
  embeddings,   \* the probes handed to processMultiAttendance
  matches,      \* the list processMultiAttendance returned
  faces,        \* the candidate boxes handed to nms
  kept,         \* the list nms returned
  regEmbeddings, \* registerFace: the samples accepted so far
  regAttempts,  \* registerFace: attempts
  regOutcome,   \* registerFace: how it ended, and the template it handed on
  insertCall,   \* the insertEmployee invocation made by the last step
  normIn,       \* the vector handed to l2Normalize
  normOut,      \* what l2Normalize returned for it
  normAgain,    \* what l2Normalize returned for normOut
  frameFaces,   \* the faces the detector returned for one photo, largest first
  frameVote,    \* the vote captureAndProcess derived from them
  tensor,       \* the photo's size and the rows of the detector's output
  nativeFault,  \* what goes wrong in the native detectFaces call, if anything
  detected,     \* the list detectFaces returned to its caller
  avgIn,        \* the embeddings handed to averageEmbedding
  avgOut,       \* what averageEmbedding returned for them
  mounted,            \* a CameraScreen (mode attendance) is mounted
  mountTimer,         \* due time of the mount effect's timer, 0 if none pending
  isScanning,         \* isScanningRef.current
  recognitionBuffer,  \* recognitionBuffer.current
  lastRecognizedUser, \* lastRecognizedUser.current
  lastRecognizedTime, \* lastRecognizedTime.current
  nullStreak,         \* nullStreak.current
  recentScans,        \* recentScans.current: name -> time, 0 where absent
  scanTimer,          \* due time of the timer in scanTimerRef, 0 if none pending
  sessionTimer,       \* due time of the timer in sessionTimerRef, 0 if none pending
  inFlight,           \* captureAndProcess invocations suspended at an await
  cyc,                \* what the vote-processing step just taken did, if any
  lastConfirmAt,      \* time of this screen's last identity confirmation, 0 if none
  lastInvoke,         \* emp_id -> time this screen last invoked markAttendance
  unknownRun,         \* unknown votes since this screen's last identity vote
  orphans             \* cycles still in flight of screens since replaced

storeVars == <<attendance, call>>

funcVars ==
  <<embeddings, matches, faces, kept, regEmbeddings, regAttempts, regOutcome,
    insertCall, normIn, normOut, normAgain, frameFaces, frameVote, tensor,
    nativeFault, detected, avgIn, avgOut>>

scanVars ==
  <<mounted, mountTimer, isScanning, recognitionBuffer, lastRecognizedUser,
    lastRecognizedTime, nullStreak, recentScans, scanTimer, sessionTimer, inFlight,
    cyc, lastConfirmAt, lastInvoke, unknownRun, orphans>>

vars == <<now, employees, storeVars, funcVars, scanVars>>

None == <<>>

Some(v) == <<v>>

(***************************************************************************)
(* Bounds of the model.                                                    *)
(***************************************************************************)
MaxSessions == 2

(***************************************************************************)
(* The clock.  The run starts at StartInstant; the device's zone leaves    *)
(* daylight saving time at DstEnd (local clocks go back one hour).         *)
(***************************************************************************)
MIN_SESSION_GAP_MIN == 5

MsPerMinute == 60 * 1000

StartInstant == 5000 * MsPerMinute

DstEnd == StartInstant + 400000

\* Date.prototype.getTimezoneOffset(): minutes, UTC minus local time.
TimezoneOffset(t) == IF t < DstEnd THEN 0 - 120 ELSE 0 - 60

ZoneOffsets == {0 - 120, 0 - 60}

\* toLocalISOString(date): the local wall-clock reading of instant t, as the
\* number of milliseconds its "YYYY-MM-DDTHH:mm:ss.sss" text spells.
toLocalISOString(t) == t - TimezoneOffset(t) * MsPerMinute

\* new Date(text) for a date-time text without offset: the text is read as
\* local time; a wall-clock reading that occurs twice denotes the earlier
\* instant, one that never occurs is read with the offset before the change.
ParseLocalInstants(s) ==
  {t \in {s + off * MsPerMinute : off \in ZoneOffsets} : toLocalISOString(t) = s}

SetMin(S) == CHOOSE x \in S : \A y \in S : x <= y

SetMax(S) == CHOOSE x \in S : \A y \in S : x >= y

ParseDate(s) ==
  IF ParseLocalInstants(s) # {}
  THEN SetMin(ParseLocalInstants(s))
  ELSE s + (0 - 120) * MsPerMinute

(***************************************************************************)
(* Table employees (the Gallery).                                          *)
(***************************************************************************)
\* A row's embedding names its stored template(s); a probe carries its cosine
\* similarity to each stored template.
Gallery ==
  <<[emp_id |-> "E1", name |-> "Ann", embedding |-> <<"t1">>],
    [emp_id |-> "E2", name |-> "Bob", embedding |-> <<"t2">>]>>

EmployeeIds(emps) == {emps[i].emp_id : i \in DOMAIN emps}

(***************************************************************************)
(* The identity matcher, processMultiAttendance.  A probe is              *)
(* [valid, sim]: valid is whether l2Normalize accepts the live embedding,  *)
(* sim[t] is cosineSimilarity(probe, stored template t) in hundredths, or  *)
(* null where cosineSimilarity returns null.                               *)
(***************************************************************************)
SIMILARITY_THRESHOLD == 82

MARGIN_THRESHOLD == 10

\* l2Normalize(faceEmbedding) is not null
l2NormalizeOk(probe) == probe.valid

cosineSimilarity(probe, storedEmb) == probe.sim[storedEmb]

\* variant: a null score counts as a perfect one
scoredTemplateNullAsOne(score, empBestScore) ==
  IF score = None THEN 100
  ELSE IF score[1] > empBestScore THEN score[1] ELSE empBestScore

\* if (score !== null && score > empBestScore) empBestScore = score
scoredTemplate(score, empBestScore) ==
  IF score # None /\ score[1] > empBestScore THEN score[1] ELSE empBestScore

\* for (const storedEmb of storedEmbeddings): the best score of one employee
RECURSIVE empBestScoreLoop(_, _, _, _)
empBestScoreLoop(probe, storedEmbeddings, k, empBestScore) ==
  IF k > Len(storedEmbeddings) THEN empBestScore
  ELSE LET score == cosineSimilarity(probe, storedEmbeddings[k]) IN
       empBestScoreLoop(probe, storedEmbeddings, k + 1,
                        scoredTemplate(score, empBestScore))

\* Update global best / second best, without the second-best branch.
UpdateBestOnly(acc, i, empBestScore) ==
  IF empBestScore > acc.bestScore
  THEN [bestScore |-> empBestScore, bestEmp |-> i, secondScore |-> acc.bestScore]
  ELSE acc

\* Update global best / second best
UpdateBest(acc, i, empBestScore) ==
  IF empBestScore > acc.bestScore
  THEN [bestScore |-> empBestScore, bestEmp |-> i, secondScore |-> acc.bestScore]
  ELSE IF empBestScore > acc.secondScore
  THEN [acc EXCEPT !.secondScore = empBestScore]
  ELSE acc

\* for (const emp of employees)
RECURSIVE employeeLoop(_, _, _, _)
employeeLoop(probe, emps, i, acc) ==
  IF i > Len(emps) THEN acc
  ELSE employeeLoop(probe, emps, i + 1,
         UpdateBest(acc, i, empBestScoreLoop(probe, emps[i].embedding, 1, 0)))

\* The match of one normalized probe: null, or the accepted employee.
matchProbe(probe, emps) ==
  LET acc == employeeLoop(probe, emps, 1,
                          [bestScore |-> 0, bestEmp |-> 0, secondScore |-> 0])
      margin == acc.bestScore - acc.secondScore
  IN IF acc.bestEmp # 0 /\ acc.bestScore >= SIMILARITY_THRESHOLD
          /\ margin >= MARGIN_THRESHOLD
     THEN Some([name |-> emps[acc.bestEmp].name, id |-> emps[acc.bestEmp].emp_id,
                score |-> acc.bestScore, margin |-> margin])
     ELSE None

\* for (let faceEmbedding of embeddings)
RECURSIVE probeLoop(_, _, _, _)
probeLoop(embs, emps, k, matchedResults) ==
  IF k > Len(embs) THEN matchedResults
  ELSE probeLoop(embs, emps, k + 1,
         IF l2NormalizeOk(embs[k])
         THEN matchedResults \o matchProbe(embs[k], emps)
         ELSE matchedResults)

processMultiAttendance(embs, emps) ==
  IF Len(emps) = 0 \/ Len(embs) = 0 THEN <<>>
  ELSE probeLoop(embs, emps, 1, <<>>)

(***************************************************************************)
(* Non-maximum suppression of the face detector (FaceDetectionModule.nms). *)
(* A box is [id, x, y, w, h, conf]: id is its position in the candidate    *)
(* list, conf is in hundredths.                                            *)
(***************************************************************************)
IOU_THRESHOLD == 45

Max2(a, b) == IF a >= b THEN a ELSE b

Min2(a, b) == IF a <= b THEN a ELSE b

\* interArea and unionArea of iou(a, b); the quotient is taken where it is
\* compared.
iou(a, b) ==
  LET x1 == Max2(a.x, b.x)
      y1 == Max2(a.y, b.y)
      x2 == Min2(a.x + a.w, b.x + b.w)
      y2 == Min2(a.y + a.h, b.y + b.h)
      interW == Max2(0, x2 - x1)
      interH == Max2(0, y2 - y1)
      interArea == interW * interH
  IN [interArea |-> interArea, unionArea |-> a.w * a.h + b.w * b.h - interArea]

\* variant: a box whose IoU with best equals the threshold stays
iouNotAbove(a, b) == iou(a, b).interArea * 100 <= IOU_THRESHOLD * iou(a, b).unionArea

\* iou(best, f) < iouThreshold
iouBelow(a, b) == iou(a, b).interArea * 100 < IOU_THRESHOLD * iou(a, b).unionArea

\* Collections.sort(faces, by conf descending): stable insertion of f.
RECURSIVE insertByConf(_, _)
insertByConf(sorted, f) ==
  IF sorted = <<>> THEN <<f>>
  ELSE IF Head(sorted).conf >= f.conf
       THEN <<Head(sorted)>> \o insertByConf(Tail(sorted), f)
       ELSE <<f>> \o sorted

RECURSIVE sortByConf(_, _)
sortByConf(fs, k) ==
  IF k = 0 THEN <<>> ELSE insertByConf(sortByConf(fs, k - 1), fs[k])

\* the boxes of fs that stay after best was taken
remaining(best, fs) == SelectSeq(fs, LAMBDA f : iouBelow(best, f))

\* while (!faces.isEmpty())
RECURSIVE nmsLoop(_, _)
nmsLoop(fs, result) ==
  IF fs = <<>> THEN result
  ELSE nmsLoop(remaining(Head(fs), Tail(fs)), Append(result, Head(fs)))

nms(fs) == nmsLoop(sortByConf(fs, Len(fs)), <<>>)

NmsNotRun == <<[id |-> 0, x |-> 0, y |-> 0, w |-> 0, h |-> 0, conf |-> 0]>>

NoDetection == faces = <<>> /\ kept = NmsNotRun

(***************************************************************************)
(* Detection, parseOutput of FaceDetectionModule and detectFaces of the    *)
(* JS service.  The tensor is [origW, origH, rows], the photo's size and   *)
(* the rows of the output; a row is [x, y, w, h, conf]: Math.round of      *)
(* the box's left, top, width and height in original-image pixels (the     *)
(* letterbox is already undone) and the confidence in hundredths.  A       *)
(* FaceResult is [id, x, y, w, h, conf], id being the row it came from; a  *)
(* FaceBox is [x, y, width, height, confidence].  Rounded coordinates are  *)
(* below 2^31.                                                             *)
(***************************************************************************)
detectVars == <<tensor, nativeFault, detected>>

CONF_THRESHOLD == 25

MIN_BOX_SIZE == 80

\* variant: the extent is left as the detector gave it
clampedNot(pos, extent, limit) == extent

\* if (ix + iw > origW) iw = origW - ix
clamped(pos, extent, limit) == IF pos + extent > limit THEN limit - pos ELSE extent

\* One iteration of the loop over the tensor's rows: the FaceResult added to
\* validFaces, or null when the row is skipped.
validFace(i, row, origW, origH) ==
  LET ix == Max2(0, row.x)
      iy == Max2(0, row.y)
      iw == clamped(ix, row.w, origW)
      ih == clamped(iy, row.h, origH)
  IN IF row.conf < CONF_THRESHOLD THEN None
     ELSE IF row.w < MIN_BOX_SIZE \/ row.h < MIN_BOX_SIZE THEN None
     ELSE IF iw <= 0 \/ ih <= 0 THEN None
     ELSE Some([id |-> i, x |-> ix, y |-> iy, w |-> iw, h |-> ih, conf |-> row.conf])

\* for (int i = 0; i < boxes; i++)
RECURSIVE validFaces(_, _, _, _)
validFaces(rows, k, origW, origH) ==
  IF k = 0 THEN <<>>
  ELSE validFaces(rows, k - 1, origW, origH) \o validFace(k, rows[k], origW, origH)

\* variant: of two boxes of equal area the later one comes first
areaBeforeStrict(a, b) == a.w * a.h > b.w * b.h

\* Integer.compare(b.area(), a.area()) <= 0: a stays before b
areaBefore(a, b) == a.w * a.h >= b.w * b.h

\* Collections.sort(nmsFaces, by area descending): stable insertion of f.
RECURSIVE insertByArea(_, _)
insertByArea(sorted, f) ==
  IF sorted = <<>> THEN <<f>>
  ELSE IF areaBefore(Head(sorted), f)
       THEN <<Head(sorted)>> \o insertByArea(Tail(sorted), f)
       ELSE <<f>> \o sorted

RECURSIVE sortByArea(_, _)
sortByArea(fs, k) ==
  IF k = 0 THEN <<>> ELSE insertByArea(sortByArea(fs, k - 1), fs[k])

\* the WritableMap put into the result for f
FaceMap(f) ==
  [x |-> f.x, y |-> f.y, width |-> f.w, height |-> f.h, confidence |-> f.conf]

parseOutput(rows, origW, origH) ==
  LET nmsFaces == nms(validFaces(rows, Len(rows), origW, origH))
      sorted == sortByArea(nmsFaces, Len(nmsFaces))
  IN [k \in DOMAIN sorted |-> FaceMap(sorted[k])]

\* What the native call may do: resolve with parseOutput's list, resolve
\* with an empty array (the file does not decode), or reject (YOLO_ERROR).
NativeFaults == {"none", "noBitmap", "reject"}

isValidFaceBox(face) ==
  /\ face.width > 0 /\ face.height > 0
  /\ face.x >= 0 /\ face.y >= 0
  /\ face.confidence >= 0 /\ face.confidence <= 100

\* detectFaces of the service: the boxes of the native answer that pass
\* isValidFaceBox, [] when the native call throws
detectFaces(rows, origW, origH, fault) ==
  IF fault = "reject" THEN <<>>
  ELSE LET raw == IF fault = "noBitmap" THEN <<>> ELSE parseOutput(rows, origW, origH)
       IN SelectSeq(raw, isValidFaceBox)

\* no list detectFaces can return
DetectNotRun == <<[x |-> 0 - 1, y |-> 0, width |-> 0, height |-> 0, confidence |-> 0]>>

NoDetectFaces ==
  /\ tensor = [origW |-> 0, origH |-> 0, rows |-> <<>>]
  /\ nativeFault = "none"
  /\ detected = DetectNotRun

(***************************************************************************)
(* Registration, registerFace.  A sample is the pose of the frame it came  *)
(* from; "bad" is a vector of the right length that l2Normalize refuses.   *)
(* Similarities are in hundredths.                                         *)
(***************************************************************************)
MAX_ATTEMPTS == 15

TARGET_SAMPLES == 5

STABILITY_THRESHOLD == 75

RegSamples == {"front", "left", "right", "other", "bad"}

\* cosineSimilarity of two samples; None where a vector does not normalise
sampleSimilarity(a, b) ==
  IF a = "bad" \/ b = "bad" THEN None
  ELSE IF a = b THEN Some(95)
  ELSE IF a = "other" \/ b = "other" THEN Some(30)
  ELSE IF a = "front" \/ b = "front" THEN Some(80)
  ELSE Some(60)

\* variant: j runs over i + 1 only
innerEndAdjacent(i, n) == IF i + 1 <= n THEN i + 1 ELSE n

\* for (let j = i + 1; j < embeddings.length; j++)
innerEnd(i, n) == n

\* The two loops of the stability check from pair (i, j) on: the sum and the
\* number of pairs, or None as soon as a similarity is null.
RECURSIVE stabilityLoop(_, _, _, _, _)
stabilityLoop(embs, i, j, stabilitySum, pairs) ==
  IF i > Len(embs) THEN Some([stabilitySum |-> stabilitySum, pairs |-> pairs])
  ELSE IF j > innerEnd(i, Len(embs))
  THEN stabilityLoop(embs, i + 1, i + 2, stabilitySum, pairs)
  ELSE LET sim == sampleSimilarity(embs[i], embs[j])
       IN IF sim = None THEN None
          ELSE stabilityLoop(embs, i, j + 1, stabilitySum + sim[1], pairs + 1)

\* averageEmbedding: null for a non-finite sample or a degenerate mean
averageEmbedding(embs, degenerate) ==
  IF embs = <<>> \/ (\E k \in DOMAIN embs : embs[k] = "bad") \/ degenerate
  THEN None ELSE Some(embs)

RegEnded(status, template) == [status |-> status, template |-> template]

\* registerFace after the capture loop
registerFaceEnd(embs, degenerate) ==
  IF Len(embs) < TARGET_SAMPLES THEN RegEnded("notEnough", None)
  ELSE LET st == stabilityLoop(embs, 1, 2, 0, 0)
       IN IF st = None THEN RegEnded("invalidFrame", None)
          \* avgStability < 0.75
          ELSE IF st[1].stabilitySum < STABILITY_THRESHOLD * st[1].pairs
          THEN RegEnded("unstable", None)
          ELSE LET finalEmbedding == averageEmbedding(embs, degenerate)
               IN IF finalEmbedding = None THEN RegEnded("noTemplate", None)
                  ELSE RegEnded("navigateRegister", finalEmbedding)

NoRegistration ==
  /\ regEmbeddings = <<>>
  /\ regAttempts = 0
  /\ regOutcome = RegEnded("idle", None)

(***************************************************************************)
(* The employees table, insertEmployee.  An embedding is a list of         *)
(* template names; BadEmbedding is one validateEmbedding refuses.          *)
(***************************************************************************)
BadEmbedding == <<"nan">>

validateEmbedding(embedding) == embedding # <<>> /\ embedding # BadEmbedding

\* What the store may do during one insertEmployee: work, fail to open,
\* answer the SELECT without rows, or fail the INSERT.
InsertFaults == {"none", "getDB", "noRows", "insert"}

\* variant: WHERE name = ?
existingRowsByName(empId, name, emps) ==
  Cardinality({i \in DOMAIN emps : emps[i].name = name})

\* SELECT emp_id FROM employees WHERE emp_id = ?
existingRows(empId, name, emps) ==
  Cardinality({i \in DOMAIN emps : emps[i].emp_id = empId})

\* the error thrown, or "ok", and the table afterwards
insertEmployee(empId, name, embedding, fault, emps) ==
  IF ~validateEmbedding(embedding)
  THEN [result |-> "INVALID_EMBEDDING", store |-> emps]
  ELSE IF fault = "getDB" THEN [result |-> "DB_ERROR", store |-> emps]
  ELSE LET rows == IF fault = "noRows" THEN 0 ELSE existingRows(empId, name, emps)
       IN IF rows > 0 THEN [result |-> "EMPLOYEE_EXISTS", store |-> emps]
          ELSE IF fault = "insert" THEN [result |-> "DB_ERROR", store |-> emps]
          \* emp_id TEXT PRIMARY KEY
          ELSE IF empId \in EmployeeIds(emps)
          THEN [result |-> "SQLITE_CONSTRAINT", store |-> emps]
          ELSE [result |-> "ok",
                store |-> Append(emps, [emp_id |-> empId, name |-> name,
                                        embedding |-> embedding])]

NoInsertCall ==
  [empId |-> "", name |-> "", embedding |-> <<>>, fault |-> "none", result |-> ""]

NoInsert == insertCall = NoInsertCall

(***************************************************************************)
(* l2Normalize.  A vector is [places, xs]: the components xs are records   *)
(* [kind, val]; a "num" component is the number val / 10^places, "big" is  *)
(* a finite number whose square overflows, "nan", "inf" and "ninf" are the *)
(* non-finite values.  The source computes in binary64; here the same      *)
(* operations are carried out in decimal, rounding to nearest: the norm    *)
(* keeps four significant digits and a normalised component three decimal  *)
(* places.                                                                 *)
(***************************************************************************)
normVars == <<normIn, normOut, normAgain>>

OutPlaces == 3

SqrtMax == 46340

RECURSIVE Pow10(_)
Pow10(k) == IF k = 0 THEN 1 ELSE 10 * Pow10(k - 1)

Abs(x) == IF x < 0 THEN 0 - x ELSE x

\* a / b rounded to nearest, b > 0
RoundDiv(a, b) ==
  IF a < 0 THEN 0 - ((2 * (0 - a) + b) \div (2 * b)) ELSE (2 * a + b) \div (2 * b)

RECURSIVE SqrtFloor(_, _, _)
SqrtFloor(n, lo, hi) ==
  IF lo = hi THEN lo
  ELSE LET mid == (lo + hi + 1) \div 2
       IN IF mid * mid <= n THEN SqrtFloor(n, mid, hi) ELSE SqrtFloor(n, lo, mid - 1)

\* Math.sqrt, rounded to nearest
RoundSqrt(n) ==
  LET r == SqrtFloor(n, 0, SqrtMax) IN IF n - r * r > r THEN r + 1 ELSE r

IsFinite(x) == x.kind \in {"num", "big"}

Num(v) == [kind |-> "num", val |-> v]

RECURSIVE SumSquares(_, _)
SumSquares(xs, k) ==
  IF k = 0 THEN 0 ELSE SumSquares(xs, k - 1) + xs[k].val * xs[k].val

\* the number of digit pairs the sum of squares is extended by, so that its
\* root has four significant digits
RECURSIVE ExtraDigits(_)
ExtraDigits(n) ==
  IF n = 0 \/ n >= 1000000 THEN 0 ELSE 1 + ExtraDigits(n * 100)

\* variant: the root is not taken
euclideanNormSquared(sumsq) ==
  [digits |-> ExtraDigits(sumsq), units |-> sumsq * Pow10(ExtraDigits(sumsq))]

\* Math.sqrt(v.reduce((s, x) => s + x * x, 0)): the norm is
\* units / 10^(places + digits)
euclideanNorm(sumsq) ==
  [digits |-> ExtraDigits(sumsq),
   units |-> RoundSqrt(sumsq * Pow10(2 * ExtraDigits(sumsq)))]

\* variant: norm === 0
belowEpsilonStrict(norm, places) == norm.units = 0

\* norm < NORM_EPSILON, NORM_EPSILON = 1e-6
belowEpsilon(norm, places) ==
  IF places + norm.digits >= 6
  THEN norm.units < Pow10(places + norm.digits - 6)
  ELSE norm.units = 0

l2Normalize(v) ==
  IF v = None \/ v[1].xs = <<>> THEN None
  ELSE LET xs == v[1].xs
           places == v[1].places
       IN IF \E i \in DOMAIN xs : ~IsFinite(xs[i]) THEN None
          \* x * x overflows to Infinity: the norm is Infinity, every
          \* x / norm is 0 and the unit-length check fails
          ELSE IF \E i \in DOMAIN xs : xs[i].kind = "big" THEN None
          ELSE LET norm == euclideanNorm(SumSquares(xs, Len(xs)))
               IN IF belowEpsilon(norm, places) THEN None
                  ELSE LET normalized ==
                             [i \in DOMAIN xs |->
                                Num(RoundDiv(xs[i].val * Pow10(norm.digits)
                                               * Pow10(OutPlaces), norm.units))]
                           checkNorm ==
                             RoundSqrt(100 * SumSquares(normalized, Len(normalized)))
                       IN \* Math.abs(checkNorm - 1.0) > 0.01
                          IF Abs(checkNorm - 10000) > 100 THEN None
                          ELSE Some([places |-> OutPlaces, xs |-> normalized])

\* no vector l2Normalize can return
NormNotRun == Some([places |-> 0 - 1, xs |-> <<>>])

NoNormalize ==
  /\ normIn = None
  /\ normOut = NormNotRun
  /\ normAgain = NormNotRun

(***************************************************************************)
(* averageEmbedding of utils/averageEmbedding.  Its argument is            *)
(* [places, embs]: embs is the list of embeddings, each a list of          *)
(* components as for l2Normalize, all with the same number of decimal      *)
(* places.  The division by the number of embeddings keeps three more      *)
(* places, rounding to nearest.                                            *)
(***************************************************************************)
avgVars == <<avgIn, avgOut>>

MeanPlaces == 3

\* avg[i] += emb[i], over the embeddings 1..k
RECURSIVE columnSum(_, _, _)
columnSum(embs, i, k) ==
  IF k = 0 THEN 0 ELSE columnSum(embs, i, k - 1) + embs[k][i].val

\* variant: avg[i] /= embeddings.length is left out of the last embedding
meanOverAllButLast(embs, i) ==
  IF Len(embs) = 1 THEN Num(embs[1][i].val * Pow10(MeanPlaces))
  ELSE Num(RoundDiv(columnSum(embs, i, Len(embs) - 1) * Pow10(MeanPlaces),
                    Len(embs) - 1))

\* avg[i] after the two loops: the sum over every embedding, divided by
\* embeddings.length
meanOver(embs, i) ==
  IF \E k \in DOMAIN embs : embs[k][i].kind = "big"
  THEN [kind |-> "big", val |-> 0]
  ELSE Num(RoundDiv(columnSum(embs, i, Len(embs)) * Pow10(MeanPlaces), Len(embs)))

averageVectors(in) ==
  LET embs == in.embs IN
  IF embs = <<>> THEN None
  ELSE LET length == Len(embs[1]) IN
       IF length = 0 THEN None
       ELSE IF \E e \in DOMAIN embs : Len(embs[e]) # length THEN None
       ELSE IF \E e \in DOMAIN embs : \E i \in DOMAIN embs[e] : ~IsFinite(embs[e][i])
       THEN None
       ELSE l2Normalize(Some([places |-> in.places + MeanPlaces,
                              xs |-> [i \in 1..length |-> meanOver(embs, i)]]))

\* no vector averageEmbedding can return
AvgNotRun == Some([places |-> 0 - 2, xs |-> <<>>])

NoAverage ==
  /\ avgIn = [places |-> 0, embs |-> <<>>]
  /\ avgOut = AvgNotRun

(***************************************************************************)
(* The faces of one photo, captureAndProcess.  A detected face is          *)
(* [cropped, emb]: cropped is whether cropFaceFromImage gave a file (it    *)
(* returned null or threw otherwise), emb is the probe getEmbedding        *)
(* returned when it has EXPECTED_EMBEDDING_SIZE components, null           *)
(* otherwise.                                                              *)
(***************************************************************************)
frameVars == <<frameFaces, frameVote>>

FACES_TO_PROCESS == 4

\* variant: every detected face is processed
facesToProcessAll(fs) == fs

\* faces.slice(0, 4)
facesToProcess(fs) ==
  SubSeq(fs, 1, IF Len(fs) < FACES_TO_PROCESS THEN Len(fs) ELSE FACES_TO_PROCESS)

\* for (const face of facesToProcess): the embeddings pushed
RECURSIVE embedLoop(_, _, _)
embedLoop(fs, k, detectedEmbeddings) ==
  IF k > Len(fs) THEN detectedEmbeddings
  ELSE embedLoop(fs, k + 1,
         IF fs[k].cropped /\ fs[k].emb # None
         THEN Append(detectedEmbeddings, fs[k].emb[1])
         ELSE detectedEmbeddings)

detectedEmbeddingsOf(fs) == embedLoop(facesToProcess(fs), 1, <<>>)

\* no vote captureAndProcess can push
NoVote == [name |-> "", id |-> ""]

NoFrame ==
  /\ frameFaces = <<>>
  /\ frameVote = NoVote

(***************************************************************************)
(* The scanning loop of CameraScreen.                                      *)
(***************************************************************************)
UNKNOWN_STREAK_THRESHOLD == 5

PROTECTION_WINDOW == 6000

VOTES_TO_CONFIRM == 3

BUFFER_SIZE == 5

DEBOUNCE_MS == 2000

SCAN_DELAY_MS == 500

MOUNT_DELAY_MS == 500

SESSION_MS == 10 * 60 * 1000

\* The name of every row the gallery may hold.
Names == {"Ann", "Bob"}

\* The vote 'unknown'.
Unknown == [name |-> "unknown", id |-> "unknown"]

NoCycle ==
  [buf |-> <<>>, confirmed |-> None, unknownEvent |-> FALSE, noEmbedding |-> FALSE]

\* The refs of a component instance as useRef initialises them.
FreshRefs ==
  /\ isScanning = FALSE
  /\ recognitionBuffer = <<>>
  /\ lastRecognizedUser = None
  /\ lastRecognizedTime = 0
  /\ nullStreak = 0
  /\ recentScans = [n \in Names |-> 0]
  /\ scanTimer = 0
  /\ sessionTimer = 0

NoScreen ==
  /\ mounted = FALSE
  /\ mountTimer = 0
  /\ FreshRefs
  /\ inFlight = 0
  /\ cyc = NoCycle
  /\ lastConfirmAt = 0
  /\ lastInvoke = [e \in {"E1", "E2"} |-> 0]
  /\ unknownRun = 0
  /\ orphans = 0

(***************************************************************************)
(* markAttendance.                                                         *)
(***************************************************************************)
\* An argument that is not a string (a number, null, undefined).
NotAString == "<not a string>"

\* The test without the trim.
IsBlankUntrimmed(s) == s \in {"", NotAString}

\* !s || typeof s !== 'string' || s.trim() === ''
IsBlank(s) == s \in {"", " ", NotAString}

\* The storage faults one invocation can meet: none, getDB() throws, the
\* SELECT throws, the open row read back is malformed, the INSERT or UPDATE
\* throws.
Faults == {"none", "getDB", "select", "row", "write"}

\* SELECT * FROM attendance WHERE emp_id = ? AND check_out IS NULL
OpenRowsNotNull(store, empId) ==
  {i \in DOMAIN store : store[i].emp_id = empId /\ store[i].check_out # None}

OpenRows(store, empId) ==
  {i \in DOMAIN store : store[i].emp_id = empId /\ store[i].check_out = None}

\* diffMins = Math.floor(diffMs / 60000); diffMins < 5
TooSoonMs(diffMs) == diffMs < MIN_SESSION_GAP_MIN

TooSoon(diffMs) == (diffMs \div MsPerMinute) < MIN_SESSION_GAP_MIN

NewRow(store, empId, name, t) ==
  [id |-> Len(store) + 1, emp_id |-> empId, name |-> name,
   check_in |-> toLocalISOString(t), check_out |-> None, duration |-> 0]

\* variant: UPDATE attendance SET ... WHERE emp_id = ?
updatedRowsByEmployee(store, row) == {i \in DOMAIN store : store[i].emp_id = row.emp_id}

\* UPDATE attendance SET check_out = ?, duration = ? WHERE id = ?
updatedRows(store, row) == {i \in DOMAIN store : store[i].id = row.id}

\* The value markAttendance returns, the table it leaves and the storage
\* operations it started (getDB, select, insert, update), for arguments
\* (empId, name), clock t, fault f, table store and employees emps.
markAttendanceBody(empId, name, t, f, store, emps) ==
  LET Ret(r, s, o) == [result |-> r, store |-> s, ops |-> o]
      open == OpenRows(store, empId)
      read == <<"getDB", "select">>
  IN
  IF IsBlank(empId) \/ IsBlank(name) THEN Ret("error", store, <<>>)
  ELSE IF f = "getDB" THEN Ret("error", store, <<"getDB">>)
  ELSE IF f = "select" THEN Ret("error", store, read)
  ELSE IF open # {} THEN
    LET row == store[SetMax(open)]
        checkInTime == ParseDate(row.check_in)
        diffMs == t - checkInTime
        durationSeconds == diffMs \div 1000
    IN
    IF f = "row" THEN Ret("error", store, read)
    ELSE IF TooSoon(diffMs) THEN Ret("ignored", store, read)
    ELSE IF f = "write" THEN Ret("error", store, Append(read, "update"))
    ELSE Ret("checkout",
             [i \in DOMAIN store |->
                IF i \in updatedRows(store, row)
                THEN [store[i] EXCEPT !.check_out = Some(toLocalISOString(t)),
                                      !.duration = durationSeconds]
                ELSE store[i]],
             Append(read, "update"))
  ELSE
    \* FOREIGN KEY (emp_id) REFERENCES employees: the INSERT of an unknown
    \* emp_id throws.
    IF f = "write" \/ empId \notin EmployeeIds(emps)
    THEN Ret("error", store, Append(read, "insert"))
    ELSE Ret("checkin", Append(store, NewRow(store, empId, name, t)),
             Append(read, "insert"))

\* markAttendance without the guard on the row read back.
markAttendanceNoRowGuard(empId, name, t, f, store, emps) ==
  markAttendanceBody(empId, name, t, IF f = "row" THEN "none" ELSE f, store, emps)

markAttendance(empId, name, t, f, store, emps) ==
  markAttendanceBody(empId, name, t, f, store, emps)

NoCall ==
  [empId |-> "", name |-> "", at |-> 0, fault |-> "none", result |-> "none",
   ops |-> <<>>]

CallOf(empId, name, t, f, store, emps) ==
  [empId |-> empId, name |-> name, at |-> t, fault |-> f,
   result |-> markAttendance(empId, name, t, f, store, emps).result,
   ops |-> markAttendance(empId, name, t, f, store, emps).ops]

(***************************************************************************)
(* The attendance store on its own: any sequence of markAttendance calls.  *)
(***************************************************************************)
StoreInstants ==
  {StartInstant + d : d \in {0, 299999, 300000, 360500, 400000, 410000, 760000}}

CallArgs ==
  {<<"E1", "Ann">>, <<"E2", "Bob">>, <<"E9", "Zed">>, <<"", "Ann">>, <<"E1", " ">>,
   <<NotAString, "Ann">>}

\* The faults tried with arguments a: a call that is refused on its
\* arguments is tried with no fault and with the first one.
CallFaults(a) ==
  IF a[1] \in {"", " ", NotAString} \/ a[2] \in {"", " ", NotAString}
  THEN {"none", "getDB"} ELSE Faults

InitStore ==
  /\ now = StartInstant
  /\ employees = Gallery
  /\ attendance = <<>>
  /\ call = NoCall
  /\ embeddings = <<>>
  /\ matches = <<>>
  /\ NoDetection
  /\ NoRegistration
  /\ NoInsert
  /\ NoNormalize
  /\ NoFrame
  /\ NoDetectFaces
  /\ NoAverage
  /\ NoScreen

MarkAttendanceCall ==
  \E a \in CallArgs : \E f \in CallFaults(a) :
    LET r == markAttendance(a[1], a[2], now, f, attendance, employees) IN
    /\ Len(r.store) <= MaxSessions
    /\ attendance' = r.store
    /\ call' = CallOf(a[1], a[2], now, f, attendance, employees)
    /\ UNCHANGED <<now, employees, funcVars, scanVars>>

TickStore ==
  /\ \E t \in StoreInstants : t > now /\ now' = t
  /\ call' = NoCall
  /\ UNCHANGED <<employees, attendance, funcVars, scanVars>>

NextStore == MarkAttendanceCall \/ TickStore

SpecStore == InitStore /\ [][NextStore]_vars

\* the number of open sessions of employee e in table store
OpenSessions(store, e) ==
  Cardinality({i \in DOMAIN store : store[i].emp_id = e /\ store[i].check_out = None})

\* C35: for each employee the results other than Ignored and Error
\* alternate CheckIn, CheckOut, CheckIn, ..., starting with CheckIn: the
\* employee has no open session at first, a CheckIn is returned only when
\* the employee has none and leaves one, a CheckOut only when the employee
\* has one and leaves none, and nothing else changes the number.
C35_ResultsAlternate ==
  /\ attendance = <<>>
  /\ [][\A e \in {"E1", "E2", "E9"} :
         LET before == OpenSessions(attendance, e)
             after == OpenSessions(attendance', e)
             mine == call'.empId = e
         IN /\ (mine /\ call'.result = "checkin") => (before = 0 /\ after = 1)
            /\ (mine /\ call'.result = "checkout") => (before = 1 /\ after = 0)
            /\ ~(mine /\ call'.result \in {"checkin", "checkout"}) => after = before]_vars

\* E1 was checked in, checked out and has just been checked in again.
C35_Witness ==
  /\ Len(attendance) = 2
  /\ attendance[1].emp_id = "E1" /\ attendance[1].check_out # None
  /\ attendance[2].emp_id = "E1" /\ attendance[2].check_out = None
  /\ call.result = "checkin" /\ call.empId = "E1"

\* C36: in every reachable state of the store each closed session has
\* checkOutTime - checkInTime >= 5 minutes and duration equal to that
\* difference in whole seconds, and each open session has duration 0.
C36_SessionDurations ==
  \A i \in DOMAIN attendance :
    IF attendance[i].check_out = None THEN attendance[i].duration = 0
    ELSE LET elapsed == ParseDate(attendance[i].check_out[1])
                          - ParseDate(attendance[i].check_in)
         IN /\ elapsed >= 5 * MsPerMinute
            /\ attendance[i].duration = elapsed \div 1000
            /\ attendance[i].duration >= 300

\* C37: a cycle in which the detector returns no face pushes no vote,
\* leaves the buffer, the unknown streak, the last confirmed identity and
\* time and the debounce map as they were, and schedules the next cycle
\* once, 500 ms later (none when the session has been stopped meanwhile).
\* Such a cycle is a step that ends a cycle without processing a vote.
C37_EmptyFrameIsNoVote ==
  [][(inFlight' = inFlight - 1 /\ cyc' = NoCycle)
       => /\ recognitionBuffer' = recognitionBuffer
          /\ nullStreak' = nullStreak
          /\ lastRecognizedUser' = lastRecognizedUser
          /\ lastRecognizedTime' = lastRecognizedTime
          /\ recentScans' = recentScans
          /\ call' = NoCall /\ attendance' = attendance
          /\ isScanning' = isScanning
          /\ isScanning => scanTimer' = now + 500
          /\ ~isScanning => scanTimer' = scanTimer]_vars

\* After two unknown votes a cycle has ended without a vote: the buffer and
\* the streak are as they were and the next cycle is due in 500 ms.
C37_Witness ==
  /\ isScanning /\ inFlight = 0 /\ cyc = NoCycle /\ call = NoCall
  /\ scanTimer = now + 500
  /\ Len(recognitionBuffer) = 2 /\ nullStreak = 2
  /\ now = StartInstant + 1000

\* C38: startScanning called while a session is active does nothing: the
\* buffer, the recognition state and the debounce map are not reset, no
\* second session timer is armed and no second chain of cycles is started
\* (no cycle begins, the pending scan timer stays as it is).
C38_StartWhileActiveIsNoOp ==
  [][(mountTimer # 0 /\ mountTimer' = 0 /\ mounted' /\ isScanning)
       => /\ isScanning'
          /\ recognitionBuffer' = recognitionBuffer
          /\ lastRecognizedUser' = lastRecognizedUser
          /\ lastRecognizedTime' = lastRecognizedTime
          /\ nullStreak' = nullStreak
          /\ recentScans' = recentScans
          /\ sessionTimer' = sessionTimer
          /\ scanTimer' = scanTimer
          /\ inFlight' = inFlight]_vars

\* The timer of a second startScanning is due one second into a session
\* that holds two votes and waits for its next cycle: the call made from
\* this state is the one the property speaks about.
C38_Witness ==
  /\ isScanning /\ mounted
  /\ mountTimer = StartInstant + 1000 /\ now = mountTimer
  /\ sessionTimer = StartInstant + SESSION_MS
  /\ Len(recognitionBuffer) = 2
  /\ inFlight = 0 /\ scanTimer = now + SCAN_DELAY_MS

\* C39: a session is stopped only by stopScanning run for the screen being
\* left or by its own timeout: the timeout it runs under is the one armed
\* at its own start, 10 minutes later, so the timeout of an earlier session
\* never stops it.
C39_OnlyOwnTimeoutStops ==
  [][/\ (~isScanning /\ isScanning') => sessionTimer' = now + SESSION_MS
     /\ (isScanning /\ isScanning') => sessionTimer' = sessionTimer
     /\ (isScanning /\ ~isScanning')
          => \/ mounted /\ ~mounted'
             \/ sessionTimer # 0 /\ now >= sessionTimer]_vars

\* Ten minutes after the first session began, a session started later on
\* the reopened screen is still scanning, its own timeout not yet due.
C39_Witness ==
  /\ mounted /\ isScanning
  /\ now = StartInstant + SESSION_MS
  /\ sessionTimer > now

\* C29: once a session is closed, no later markAttendance call, for any
\* employee, changes any field of it; check_out and duration are written
\* once, by the call that checks the session out.
C29_ClosedSessionFrozen ==
  [][\A i \in DOMAIN attendance :
       /\ i \in DOMAIN attendance'
       /\ attendance[i].check_out # None => attendance'[i] = attendance[i]
       /\ attendance'[i] # attendance[i]
            => /\ call'.result = "checkout"
               /\ attendance[i].emp_id = call'.empId
               /\ attendance'[i].check_out # None
               /\ attendance'[i] =
                    [attendance[i] EXCEPT !.check_out = attendance'[i].check_out,
                                          !.duration = attendance'[i].duration]]_vars

\* E1's first session is closed and unchanged while a later call has just
\* checked E1's second session out.
C29_Witness ==
  /\ Len(attendance) >= 2
  /\ attendance[1].emp_id = "E1" /\ attendance[2].emp_id = "E1"
  /\ attendance[1].check_out = Some(toLocalISOString(StartInstant + 300000))
  /\ attendance[1].duration = 300
  /\ attendance[2].check_out # None
  /\ call.result = "checkout" /\ call.empId = "E1"
  /\ now = StartInstant + 760000

(***************************************************************************)
(* The scanning screen: mount, startScanning, captureAndProcess cycles,    *)
(* the session timer, stopScanning, unmount.                               *)
(***************************************************************************)
MaxTick == 7

ScanInstants ==
  {StartInstant + k * SCAN_DELAY_MS : k \in 0..MaxTick}
  \cup {StartInstant + PROTECTION_WINDOW + 1000, StartInstant + SESSION_MS}

\* Two employees may carry the same name: insertEmployee only refuses a
\* duplicate emp_id.
GalleryShared ==
  <<[emp_id |-> "E1", name |-> "Ann", embedding |-> <<"t1">>],
    [emp_id |-> "E2", name |-> "Ann", embedding |-> <<"t2">>]>>

ScanProbe(valid, s1, s2) ==
  [valid |-> valid, sim |-> [t \in {"t1", "t2"} |-> IF t = "t1" THEN s1 ELSE s2]]

\* The embeddings one photo may yield, best face first.
ScanEmbeddings ==
  { <<>>,
    <<ScanProbe(TRUE, Some(90), Some(50))>>,
    <<ScanProbe(TRUE, Some(50), Some(90))>>,
    <<ScanProbe(TRUE, Some(90), Some(85))>>,
    <<ScanProbe(FALSE, None, None), ScanProbe(TRUE, Some(90), None)>>,
    <<ScanProbe(TRUE, Some(50), Some(92)), ScanProbe(TRUE, Some(90), Some(50))>> }

\* What the store may do when the scanning loop calls markAttendance.
ScanFaults == {"none", "getDB"}

\* matches.length > 0 ? matches[0] : 'unknown'
VoteOf(m) == IF Len(m) > 0 THEN [name |-> m[1].name, id |-> m[1].id] ELSE Unknown

\* variant: pop instead of shift
PushVotePop(buf, v) ==
  IF Len(buf) + 1 > BUFFER_SIZE THEN buf ELSE Append(buf, v)

\* push, then shift once the buffer holds more than five votes
PushVote(buf, v) ==
  IF Len(buf) + 1 > BUFFER_SIZE THEN Tail(Append(buf, v)) ELSE Append(buf, v)

\* userCounts.get(name).count
CountOf(buf, name) ==
  Cardinality({i \in DOMAIN buf : buf[i] # Unknown /\ buf[i].name = name})

\* userCounts.get(name).id: the id of the last vote carrying the name
IdOf(buf, name) ==
  buf[SetMax({i \in DOMAIN buf : buf[i] # Unknown /\ buf[i].name = name})].id

\* The tally confirming at two votes.
confirmedUserAtTwo(buf) ==
  LET hit == {buf[i].name : i \in {j \in DOMAIN buf :
                 buf[j] # Unknown /\ CountOf(buf, buf[j].name) >= 2}}
  IN IF hit = {} THEN None
     ELSE LET n == CHOOSE x \in hit : TRUE IN Some([name |-> n, id |-> IdOf(buf, n)])

\* The first name of the tally with three votes or more (at most one name
\* of five votes has three).
confirmedUser(buf) ==
  LET hit == {buf[i].name : i \in {j \in DOMAIN buf :
                 buf[j] # Unknown /\ CountOf(buf, buf[j].name) >= VOTES_TO_CONFIRM}}
  IN IF hit = {} THEN None
     ELSE LET n == CHOOSE x \in hit : TRUE IN Some([name |-> n, id |-> IdOf(buf, n)])

\* (now - lastRecognizedTime.current) < PROTECTION_WINDOW
inProtectionWindow(t, last) == (t - last) < PROTECTION_WINDOW

\* The guard of the Unknown popup without the protection window.
UnknownDueNoWindow(inWindow, streak) == streak >= UNKNOWN_STREAK_THRESHOLD

\* !inProtectionWindow && nullStreak.current >= UNKNOWN_STREAK_THRESHOLD
UnknownDue(inWindow, streak) == ~inWindow /\ streak >= UNKNOWN_STREAK_THRESHOLD

\* now - lastScanTime >= 2000
DebouncePassedAt(t, lastScanTime) == t - lastScanTime >= DEBOUNCE_MS

\* now - lastScanTime > 2000
DebouncePassed(t, lastScanTime) == t - lastScanTime > DEBOUNCE_MS

\* The screen was mounted 500 ms before StartInstant: its mount timer is due.
InitScan ==
  /\ now = StartInstant
  /\ employees \in {Gallery, GalleryShared}
  /\ attendance = <<>>
  /\ call = NoCall
  /\ embeddings = <<>>
  /\ matches = <<>>
  /\ NoDetection
  /\ NoRegistration
  /\ NoInsert
  /\ NoNormalize
  /\ NoFrame
  /\ NoDetectFaces
  /\ NoAverage
  /\ mounted = TRUE
  /\ mountTimer = StartInstant
  /\ FreshRefs
  /\ inFlight = 0
  /\ cyc = NoCycle
  /\ lastConfirmAt = 0
  /\ lastInvoke = [e \in {"E1", "E2"} |-> 0]
  /\ unknownRun = 0
  /\ orphans = 0

\* stopScanning without clearTimeout(scanTimerRef.current).
StopRefsKeepTimer ==
  /\ isScanning' = FALSE
  /\ recognitionBuffer' = <<>>
  /\ lastRecognizedUser' = None
  /\ lastRecognizedTime' = 0
  /\ nullStreak' = 0
  /\ recentScans' = [n \in Names |-> 0]
  /\ scanTimer' = scanTimer
  /\ sessionTimer' = 0

\* The assignments of stopScanning.
StopRefs ==
  /\ isScanning' = FALSE
  /\ recognitionBuffer' = <<>>
  /\ lastRecognizedUser' = None
  /\ lastRecognizedTime' = 0
  /\ nullStreak' = 0
  /\ recentScans' = [n \in Names |-> 0]
  /\ scanTimer' = 0
  /\ sessionTimer' = 0

\* The mount effect's timer fires: startScanning, which ends by entering
\* captureAndProcess.
\* variant: the timeout stays the one of the screen's first session
sessionDeadlineOfFirst(t) == StartInstant + SESSION_MS

\* setTimeout(..., 10 * 60 * 1000) of startScanning, called at t
sessionDeadline(t) == t + SESSION_MS

\* variant: startScanning without its first line
sessionActiveIgnored(scanning) == FALSE

\* if (isScanningRef.current) return;
sessionActive(scanning) == scanning

StartScanning ==
  /\ mountTimer # 0 /\ now >= mountTimer
  /\ mountTimer' = 0
  /\ IF sessionActive(isScanning)
     THEN UNCHANGED <<isScanning, recognitionBuffer, lastRecognizedUser,
                      lastRecognizedTime, nullStreak, recentScans,
                      sessionTimer, inFlight>>
     ELSE /\ isScanning' = TRUE
          /\ recognitionBuffer' = <<>>
          /\ lastRecognizedUser' = None
          /\ lastRecognizedTime' = 0
          /\ nullStreak' = 0
          /\ recentScans' = [n \in Names |-> 0]
          /\ sessionTimer' = sessionDeadline(now)
          /\ \E cameraReady \in BOOLEAN :
               inFlight' = IF cameraReady THEN inFlight + 1 ELSE inFlight
  /\ call' = NoCall /\ cyc' = NoCycle
  /\ UNCHANGED <<now, employees, attendance, funcVars, mounted, orphans, scanTimer,
                 lastConfirmAt, lastInvoke, unknownRun>>

\* setTimeout is one-shot: nothing is pending once the timer has fired.
TimerAfterFire(t) == 0

\* The timer of scanTimerRef fires: captureAndProcess up to its first await.
ScanTimerFire ==
  /\ scanTimer # 0 /\ now >= scanTimer
  /\ scanTimer' = TimerAfterFire(now)
  /\ \E cameraReady \in BOOLEAN :
       inFlight' = IF isScanning /\ cameraReady THEN inFlight + 1 ELSE inFlight
  /\ call' = NoCall /\ cyc' = NoCycle
  /\ UNCHANGED <<now, employees, attendance, funcVars, mounted, orphans, mountTimer,
                 isScanning, recognitionBuffer, lastRecognizedUser,
                 lastRecognizedTime, nullStreak, recentScans, sessionTimer,
                 lastConfirmAt, lastInvoke, unknownRun>>

\* if (isScanningRef.current) scanTimerRef.current = setTimeout(captureAndProcess, 500)
Reschedule(t) == IF isScanning THEN t + SCAN_DELAY_MS ELSE scanTimer

\* takePhoto, detectFaces or processMultiAttendance throws.
CycleThrows ==
  /\ inFlight > 0
  /\ inFlight' = inFlight - 1
  /\ scanTimer' = Reschedule(now)
  /\ call' = NoCall /\ cyc' = NoCycle
  /\ UNCHANGED <<now, employees, attendance, funcVars, mounted, orphans, mountTimer,
                 isScanning, recognitionBuffer, lastRecognizedUser,
                 lastRecognizedTime, nullStreak, recentScans, sessionTimer,
                 lastConfirmAt, lastInvoke, unknownRun>>

\* variant: an empty frame counts as an unknown vote
StreakAfterNoFaceCounted(streak) == streak + 1

\* the no-face branch does not touch nullStreak.current
StreakAfterNoFace(streak) == streak

\* detectFaces finds no face.
CycleNoFace ==
  /\ inFlight > 0
  /\ inFlight' = inFlight - 1
  /\ scanTimer' = Reschedule(now)
  /\ nullStreak' = StreakAfterNoFace(nullStreak)
  /\ call' = NoCall /\ cyc' = NoCycle
  /\ UNCHANGED <<now, employees, attendance, funcVars, mounted, orphans, mountTimer,
                 isScanning, recognitionBuffer, lastRecognizedUser,
                 lastRecognizedTime, recentScans, sessionTimer,
                 lastConfirmAt, lastInvoke, unknownRun>>

\* variant: the streak is kept
StreakAfterUnknownKept(streak) == streak

\* nullStreak.current = 0 after the Unknown popup
StreakAfterUnknown(streak) == 0

\* variant: the buffer is emptied only where markAttendance was called
BufferAfterConfirmInvoked(buf, invoked) == IF invoked THEN <<>> ELSE buf

\* recognitionBuffer.current = [] at the end of the confirmation branch
BufferAfterConfirm(buf, invoked) == <<>>

\* The cycle from the matcher's answer to its end: the vote is pushed and
\* tallied, markAttendance is called for a confirmed and debounced identity,
\* or the Unknown popup is raised; then the next cycle is scheduled.
CycleVote ==
  /\ inFlight > 0
  /\ \E detectedEmbeddings \in ScanEmbeddings :
       LET vote == VoteOf(processMultiAttendance(detectedEmbeddings, employees))
           buf == PushVote(recognitionBuffer, vote)
           confirmed == confirmedUser(buf)
           inWindow == inProtectionWindow(now, lastRecognizedTime)
           \* no crop of the photo gave a usable embedding
           noEmbedding == \A i \in DOMAIN detectedEmbeddings :
                            ~detectedEmbeddings[i].valid
       IN
       /\ IF confirmed # None
          THEN LET name == confirmed[1].name
                   id == confirmed[1].id
                   lastScanTime == recentScans[name]
               IN
               /\ lastRecognizedUser' = Some(name)
               /\ lastRecognizedTime' = now
               /\ nullStreak' = 0
               /\ lastConfirmAt' = now
               /\ IF DebouncePassed(now, lastScanTime)
                  THEN \E f \in ScanFaults :
                         /\ recentScans' = [recentScans EXCEPT ![name] = now]
                         /\ attendance' =
                              markAttendance(id, name, now, f, attendance, employees).store
                         /\ call' = CallOf(id, name, now, f, attendance, employees)
                         /\ lastInvoke' = [lastInvoke EXCEPT ![id] = now]
                  ELSE /\ call' = NoCall
                       /\ UNCHANGED <<recentScans, attendance, lastInvoke>>
               /\ recognitionBuffer' =
                    BufferAfterConfirm(buf, DebouncePassed(now, lastScanTime))
               /\ cyc' = [buf |-> buf, confirmed |-> confirmed,
                          unknownEvent |-> FALSE, noEmbedding |-> noEmbedding]
          ELSE LET lastFrameUnknown == Len(buf) > 0 /\ buf[Len(buf)] = Unknown
                   streak == IF lastFrameUnknown THEN nullStreak + 1 ELSE nullStreak
               IN
               /\ IF UnknownDue(inWindow, streak)
                  THEN /\ recognitionBuffer' = <<>>
                       /\ nullStreak' = StreakAfterUnknown(streak)
                  ELSE recognitionBuffer' = buf /\ nullStreak' = streak
               /\ cyc' = [buf |-> buf, confirmed |-> None,
                          unknownEvent |-> UnknownDue(inWindow, streak),
                          noEmbedding |-> noEmbedding]
               /\ call' = NoCall
               /\ UNCHANGED <<lastRecognizedUser, lastRecognizedTime, recentScans,
                              attendance, lastConfirmAt, lastInvoke>>
       /\ unknownRun' = IF vote # Unknown THEN 0
                        ELSE IF unknownRun < UNKNOWN_STREAK_THRESHOLD
                        THEN unknownRun + 1 ELSE unknownRun
  /\ inFlight' = inFlight - 1
  /\ scanTimer' = Reschedule(now)
  /\ UNCHANGED <<now, employees, funcVars, mounted, orphans, mountTimer, isScanning,
                 sessionTimer>>

\* The timer of sessionTimerRef fires.
SessionTimeout ==
  /\ sessionTimer # 0 /\ now >= sessionTimer
  /\ IF isScanning
     THEN StopRefs
     ELSE /\ sessionTimer' = 0
          /\ UNCHANGED <<isScanning, recognitionBuffer, lastRecognizedUser,
                         lastRecognizedTime, nullStreak, recentScans, scanTimer>>
  /\ call' = NoCall /\ cyc' = NoCycle
  /\ UNCHANGED <<now, employees, attendance, funcVars, mounted, orphans, mountTimer, inFlight,
                 lastConfirmAt, lastInvoke, unknownRun>>

\* The screen is left: the effects' cleanups clear the mount timer and call
\* stopScanning.  A cycle awaiting the camera still runs to its end.
Unmount ==
  /\ mounted
  /\ mounted' = FALSE
  /\ mountTimer' = 0
  /\ StopRefs
  /\ call' = NoCall /\ cyc' = NoCycle
  /\ UNCHANGED <<now, employees, attendance, funcVars, inFlight, lastConfirmAt,
                 lastInvoke, unknownRun, orphans>>

MaxScreenTick == 5

\* The screen is opened again: a new component instance with fresh refs and
\* a mount timer.  A cycle of the previous instance that is still suspended
\* goes on with the refs of that instance.
Mount ==
  /\ ~mounted
  /\ now + MOUNT_DELAY_MS <= StartInstant + MaxScreenTick * SCAN_DELAY_MS
  /\ mounted' = TRUE
  /\ mountTimer' = now + MOUNT_DELAY_MS
  /\ isScanning' = FALSE
  /\ recognitionBuffer' = <<>>
  /\ lastRecognizedUser' = None
  /\ lastRecognizedTime' = 0
  /\ nullStreak' = 0
  /\ recentScans' = [n \in Names |-> 0]
  /\ scanTimer' = 0
  /\ sessionTimer' = 0
  /\ orphans' = orphans + inFlight
  /\ inFlight' = 0
  /\ lastConfirmAt' = 0
  /\ lastInvoke' = [e \in {"E1", "E2"} |-> 0]
  /\ unknownRun' = 0
  /\ call' = NoCall /\ cyc' = NoCycle
  /\ UNCHANGED <<now, employees, attendance, funcVars>>

\* A cycle of a replaced screen runs to its end.  Its screen was stopped
\* with an empty buffer and had one cycle in flight, so its vote confirms
\* nothing; it is not rescheduled.
OrphanDone ==
  /\ orphans > 0
  /\ orphans' = orphans - 1
  /\ call' = NoCall /\ cyc' = NoCycle
  /\ UNCHANGED <<now, employees, attendance, funcVars, mounted, mountTimer,
                 isScanning, recognitionBuffer, lastRecognizedUser,
                 lastRecognizedTime, nullStreak, recentScans, scanTimer,
                 sessionTimer, inFlight, lastConfirmAt, lastInvoke, unknownRun>>

\* Time passes to the next instant; a due timer fires before that.
Tick ==
  /\ ~(scanTimer # 0 /\ now >= scanTimer)
  /\ ~(mountTimer # 0 /\ now >= mountTimer)
  /\ \E t \in ScanInstants :
       /\ t > now
       /\ \A u \in ScanInstants : u > now => t <= u
       /\ now' = t
  /\ call' = NoCall /\ cyc' = NoCycle
  /\ UNCHANGED <<employees, attendance, funcVars, mounted, orphans, mountTimer,
                 isScanning, recognitionBuffer, lastRecognizedUser,
                 lastRecognizedTime, nullStreak, recentScans, scanTimer,
                 sessionTimer, inFlight, lastConfirmAt, lastInvoke, unknownRun>>

Next ==
  \/ StartScanning
  \/ ScanTimerFire
  \/ CycleThrows
  \/ CycleNoFace
  \/ CycleVote
  \/ SessionTimeout
  \/ Unmount
  \/ Tick

Spec == InitScan /\ [][Next]_vars

\* The session timer is a setTimeout: once due it fires.
SpecLive == Spec /\ WF_vars(SessionTimeout)

(***************************************************************************)
(* Spec follows one screen instance through a long session.  SpecScreens   *)
(* follows the screen being left and opened again, over a shorter time.    *)
(***************************************************************************)
ScreenInstants ==
  {StartInstant + k * SCAN_DELAY_MS : k \in 0..MaxScreenTick}
  \cup {StartInstant + SESSION_MS}

TickScreens ==
  /\ ~(scanTimer # 0 /\ now >= scanTimer)
  /\ ~(mountTimer # 0 /\ now >= mountTimer)
  /\ \E t \in ScreenInstants :
       /\ t > now
       /\ \A u \in ScreenInstants : u > now => t <= u
       /\ now' = t
  /\ call' = NoCall /\ cyc' = NoCycle
  /\ UNCHANGED <<employees, attendance, funcVars, mounted, orphans, mountTimer,
                 isScanning, recognitionBuffer, lastRecognizedUser,
                 lastRecognizedTime, nullStreak, recentScans, scanTimer,
                 sessionTimer, inFlight, lastConfirmAt, lastInvoke, unknownRun>>

NextScreens ==
  \/ StartScanning
  \/ ScanTimerFire
  \/ CycleThrows
  \/ CycleNoFace
  \/ CycleVote
  \/ SessionTimeout
  \/ Unmount
  \/ Mount
  \/ OrphanDone
  \/ TickScreens

SpecScreens == InitScan /\ [][NextScreens]_vars

(***************************************************************************)
(* SpecRestart follows one screen instance whose route parameter `mode`    *)
(* is set to another value and back to 'attendance': the effect on [mode]  *)
(* runs again, its cleanup clears the pending timer and a new timer is     *)
(* armed that calls startScanning 500 ms later, whatever the session does. *)
(***************************************************************************)
ModeEffect ==
  /\ mounted
  /\ now + MOUNT_DELAY_MS <= StartInstant + MaxScreenTick * SCAN_DELAY_MS
  /\ mountTimer' = now + MOUNT_DELAY_MS
  /\ call' = NoCall /\ cyc' = NoCycle
  /\ UNCHANGED <<now, employees, attendance, funcVars, mounted, orphans,
                 isScanning, recognitionBuffer, lastRecognizedUser,
                 lastRecognizedTime, nullStreak, recentScans, scanTimer,
                 sessionTimer, inFlight, lastConfirmAt, lastInvoke, unknownRun>>

NextRestart ==
  \/ StartScanning
  \/ ScanTimerFire
  \/ CycleThrows
  \/ CycleNoFace
  \/ CycleVote
  \/ SessionTimeout
  \/ Unmount
  \/ ModeEffect
  \/ TickScreens

SpecRestart == InitScan /\ [][NextRestart]_vars

(***************************************************************************)
(* Claims about the attendance store (checked under SpecStore).            *)
(* A session's checkInTime / checkOutTime is the instant its stored text   *)
(* denotes when read back with new Date(text), as markAttendance reads it. *)
(***************************************************************************)
GapMs == 5 * 60 * 1000

IsOpen(r) == r.check_out = None

LatestOpen(store, empId) ==
  store[SetMax({i \in DOMAIN store : store[i].emp_id = empId /\ IsOpen(store[i])})]

HasOpen(store, empId) ==
  \E i \in DOMAIN store : store[i].emp_id = empId /\ IsOpen(store[i])

BadArgs == {"", " ", "<not a string>"}

ValidCall(c) ==
  c # NoCall /\ c.empId \notin BadArgs /\ c.name \notin BadArgs

\* C1: after any sequence of markAttendance calls every employee has at most
\* one attendance session whose checkOutTime is null.
C1_AtMostOneOpen ==
  \A i, j \in DOMAIN attendance :
    (attendance[i].emp_id = attendance[j].emp_id
       /\ IsOpen(attendance[i]) /\ IsOpen(attendance[j])) => i = j

\* An employee checked in again after a check-out: one closed and one open
\* session of the same employee.
C1_Witness ==
  \E i, j \in DOMAIN attendance :
    /\ attendance[i].emp_id = attendance[j].emp_id
    /\ ~IsOpen(attendance[i]) /\ IsOpen(attendance[j])
    /\ call.result = "checkin"

\* C7: markAttendance(employeeId, name, now) with valid inputs, while the
\* employee has no open session, inserts exactly one new session with
\* checkInTime = now, checkOutTime = null and duration = 0, changes no
\* existing session and returns CheckIn.
C7_CheckInCreatesSession ==
  [][(ValidCall(call') /\ call'.fault = "none"
        /\ call'.empId \in EmployeeIds(employees)
        /\ ~HasOpen(attendance, call'.empId))
     => /\ call'.result = "checkin"
        /\ Len(attendance') = Len(attendance) + 1
        /\ SubSeq(attendance', 1, Len(attendance)) = attendance
        /\ LET r == attendance'[Len(attendance')] IN
             /\ r.emp_id = call'.empId /\ r.name = call'.name
             /\ ParseDate(r.check_in) = call'.at
             /\ r.check_out = None /\ r.duration = 0]_vars

\* C8: markAttendance called while the employee has an open session and
\* now - checkInTime is less than the 5-minute minimum session gap returns
\* Ignored and leaves the attendance store unchanged.
C8_TooSoonIgnored ==
  [][(ValidCall(call') /\ call'.fault \in {"none", "write"}
        /\ HasOpen(attendance, call'.empId)
        /\ call'.at - ParseDate(LatestOpen(attendance, call'.empId).check_in) < GapMs)
     => (call'.result = "ignored" /\ attendance' = attendance)]_vars

\* A call 299999 ms after the check-in it meets was ignored.
C8_Witness ==
  /\ call.result = "ignored" /\ call.fault = "none"
  /\ HasOpen(attendance, call.empId)
  /\ call.at - ParseDate(LatestOpen(attendance, call.empId).check_in) = GapMs - 1

\* C9: markAttendance called while the employee has an open session and
\* now - checkInTime is at least 5 minutes closes exactly that session,
\* setting checkOutTime = now and duration = the elapsed time in whole
\* seconds, creates no new session and returns CheckOut.
C9_CheckOutClosesSession ==
  [][(ValidCall(call') /\ call'.fault = "none"
        /\ HasOpen(attendance, call'.empId)
        /\ call'.at - ParseDate(LatestOpen(attendance, call'.empId).check_in) >= GapMs)
     => LET old == LatestOpen(attendance, call'.empId) IN
        /\ call'.result = "checkout"
        /\ Len(attendance') = Len(attendance)
        /\ \A i \in DOMAIN attendance : i # old.id => attendance'[i] = attendance[i]
        /\ attendance'[old.id].check_out # None
        /\ ParseDate(attendance'[old.id].check_out[1]) = call'.at
        /\ attendance'[old.id].duration = (call'.at - ParseDate(old.check_in)) \div 1000
        /\ attendance'[old.id].check_in = old.check_in
        /\ attendance'[old.id].emp_id = old.emp_id]_vars

\* Whether fault f is met by a call with these arguments on this table: the
\* faulting operation is one the call executes.
FaultMet(c, store) ==
  \/ c.fault \in {"getDB", "select"}
  \/ c.fault = "row" /\ HasOpen(store, c.empId)
  \/ /\ c.fault = "write"
     /\ (HasOpen(store, c.empId)
           => c.at - ParseDate(LatestOpen(store, c.empId).check_in) >= GapMs)

\* C10: if any storage operation inside markAttendance faults, markAttendance
\* returns Error and the attendance store holds exactly the sessions it held
\* before the call.
C10_FaultIsError ==
  [][(ValidCall(call') /\ FaultMet(call', attendance))
     => (call'.result = "error" /\ attendance' = attendance)]_vars

\* The UPDATE of a check-out faulted: Error, and the session is still open.
C10_Witness ==
  /\ call.result = "error" /\ call.fault = "write"
  /\ HasOpen(attendance, call.empId)
  /\ call.at - ParseDate(LatestOpen(attendance, call.empId).check_in) >= GapMs

\* C11: markAttendance called with an employeeId or a name that is empty,
\* whitespace-only or not a string returns Error without performing any
\* storage read or write.
C11_BlankIsErrorNoStorage ==
  [][(call' # NoCall /\ (call'.empId \in BadArgs \/ call'.name \in BadArgs))
     => /\ call'.result = "error"
        /\ call'.ops = <<>>
        /\ attendance' = attendance]_vars

\* A whitespace-only name for a registered employee, with getDB about to
\* throw: the call ends before getDB.
C11_Witness ==
  /\ call # NoCall /\ call.empId = "E1" /\ call.name = " "
  /\ call.fault = "getDB" /\ call.result = "error" /\ call.ops = <<>>

(***************************************************************************)
(* Claims about the scanning loop (checked under Spec).  cyc.buf is the    *)
(* voting buffer right after the cycle's vote was pushed.                  *)
(***************************************************************************)
VotesFor(buf, e) == Cardinality({i \in DOMAIN buf : buf[i].id = e})

\* C2: in every scanning cycle, after the cycle's vote has been pushed, an
\* identity (an employee) is confirmed in that cycle if and only if it holds
\* at least 3 of the (at most 5) votes in the buffer.
C2_ConfirmedIffThreeVotes ==
  cyc # NoCycle =>
    /\ Len(cyc.buf) <= 5
    /\ \A e \in EmployeeIds(employees) :
         (cyc.confirmed # None /\ cyc.confirmed[1].id = e) <=> VotesFor(cyc.buf, e) >= 3

\* C23: votes are tallied per employeeId: a cycle confirms an identity only
\* when at least 3 votes of the buffer carry that very employeeId, and the
\* employeeId handed to markAttendance is the one of those votes.
C23_TalliedPerEmployeeId ==
  (cyc # NoCycle /\ cyc.confirmed # None)
    => /\ VotesFor(cyc.buf, cyc.confirmed[1].id) >= 3
       /\ call # NoCall => call.empId = cyc.confirmed[1].id

\* C24: while a scanning session is active the loop never halts: a cycle is
\* in flight or the next one is scheduled, whatever the outcome of the cycle
\* before (camera not ready, no face, a thrown fault, an Error or Ignored
\* answer of the store, a confirmation, an unknown event).
C24_LoopNeverHalts ==
  isScanning => (inFlight > 0 \/ scanTimer # 0)

\* The part of C24 about cycles that got past the camera check: each ends by
\* scheduling the next one while the session is active.
C24_StartedCycleReschedules ==
  [][(inFlight' = inFlight - 1 /\ isScanning) => scanTimer' = now + 500]_vars

\* C25: every cycle that confirms an identity, with the attendance call made
\* or suppressed by the debounce and whatever the store answered, sets the
\* last recognised user and time to that identity and the current time,
\* resets the unknown streak and empties the buffer; the next confirmation
\* comes from at least 3 votes pushed afterwards, so no sooner than three
\* cycles later.
C25_ConfirmationResetsState ==
  [][(cyc' # NoCycle /\ cyc'.confirmed # None)
     => /\ lastRecognizedUser' = <<cyc'.confirmed[1].name>>
        /\ lastRecognizedTime' = now'
        /\ nullStreak' = 0
        /\ recognitionBuffer' = <<>>
        /\ Len(cyc'.buf) >= 3
        /\ lastConfirmAt # 0 => now' - lastConfirmAt >= 3 * 500]_vars

\* C25: a confirmation whose attendance call the debounce suppressed.
C25_Witness ==
  /\ cyc # NoCycle /\ cyc.confirmed # None /\ call = NoCall
  /\ lastRecognizedTime = now /\ recognitionBuffer = <<>>
  /\ now = StartInstant + 2500

\* C26: a cycle that raises the Unknown event leaves the buffer empty and
\* the unknown streak at 0; the streak grows by one per cycle, and only in a
\* cycle whose vote is unknown, and an Unknown event needs it to reach 5: the
\* next event takes at least 5 further unknown votes and never comes in the
\* very next cycle.
C26_UnknownEventResets ==
  [][/\ (cyc' # NoCycle /\ cyc'.unknownEvent)
          => /\ recognitionBuffer' = <<>> /\ nullStreak' = 0
             /\ nullStreak >= 4
             /\ nullStreak = 4 => cyc'.buf[Len(cyc'.buf)].id = "unknown"
     /\ nullStreak' > nullStreak
          => /\ nullStreak' = nullStreak + 1
             /\ cyc' # NoCycle /\ cyc'.buf[Len(cyc'.buf)].id = "unknown"]_vars

\* C26: the Unknown event after five unknown votes in a row, at the fifth
\* cycle of the session.
C26_Witness ==
  /\ cyc # NoCycle /\ cyc.unknownEvent
  /\ now = StartInstant + 2000
  /\ recognitionBuffer = <<>> /\ nullStreak = 0

\* C27: the buffer never holds more than 5 votes; a cycle appends its vote
\* behind the votes already there, and when there are 5 already, drops
\* exactly the oldest and keeps the other four in their order.
C27_BufferSlidesByOne ==
  [][/\ Len(recognitionBuffer') <= 5
     /\ cyc' # NoCycle
          => /\ Len(cyc'.buf) <= 5
             /\ Len(recognitionBuffer) < 5
                  => /\ Len(cyc'.buf) = Len(recognitionBuffer) + 1
                     /\ \A i \in DOMAIN recognitionBuffer :
                          cyc'.buf[i] = recognitionBuffer[i]
             /\ Len(recognitionBuffer) = 5
                  => /\ Len(cyc'.buf) = 5
                     /\ \A i \in 1..4 : cyc'.buf[i] = recognitionBuffer[i + 1]
             /\ recognitionBuffer' \in {cyc'.buf, <<>>}]_vars

\* C27: five votes are held and three unknown votes were pushed since the
\* buffer was last emptied, yet only two are left: one was evicted.
C27_Witness ==
  /\ cyc # NoCycle /\ recognitionBuffer = cyc.buf
  /\ Len(recognitionBuffer) = 5 /\ nullStreak = 3 /\ lastConfirmAt = 0
  /\ Cardinality({i \in 1..5 : recognitionBuffer[i].id = "unknown"}) = 2

\* C4: the Unknown event is raised only in a cycle in which the 5 most
\* recent votes were all unknown (5 consecutive unknown votes with no
\* identity vote in between).
C4_UnknownOnlyAfterFiveUnknown ==
  (cyc # NoCycle /\ cyc.unknownEvent) => unknownRun >= 5

\* C5: no Unknown event is raised in a cycle that runs less than 6 seconds
\* after the most recent identity confirmation, however many unknown votes
\* have accumulated.
C5_NoUnknownInWindow ==
  (cyc # NoCycle /\ cyc.unknownEvent) => (lastConfirmAt = 0 \/ now - lastConfirmAt >= 6000)

\* A cycle inside the window with five unknown votes counted and no event.
C5_Witness ==
  /\ cyc # NoCycle /\ ~cyc.unknownEvent /\ cyc.confirmed = None
  /\ cyc.buf[Len(cyc.buf)] = Unknown
  /\ nullStreak >= 5
  /\ lastConfirmAt # 0 /\ now - lastConfirmAt < 6000

\* C6: within one scanning session any two invocations of markAttendance
\* for the same identity are more than 2 seconds apart: a confirmation that
\* arrives within 2 seconds of the previous invocation for that identity
\* does not invoke markAttendance.
C6_InvocationsTwoSecondsApart ==
  [][/\ (call' # NoCall /\ lastInvoke[call'.empId] # 0)
          => call'.at - lastInvoke[call'.empId] > 2000
     /\ (cyc' # NoCycle /\ cyc'.confirmed # None
           /\ lastInvoke[cyc'.confirmed[1].id] # 0
           /\ now' - lastInvoke[cyc'.confirmed[1].id] <= 2000)
          => call' = NoCall]_vars

\* A second invocation for an employee, 2.5 s after the one that checked
\* them in.
C6_Witness ==
  /\ cyc # NoCycle /\ call.result = "ignored"
  /\ HasOpen(attendance, call.empId)
  /\ call.at - ParseDate(LatestOpen(attendance, call.empId).check_in) = 2500

\* C12: in a freshly started scanning session with E1 enrolled and no open
\* session for E1, three consecutive cycles whose vote is E1 produce exactly
\* one attendance write: a CheckIn session for E1 with duration 0, recorded
\* in the third cycle and in neither of the first two.  (The store is taken
\* to answer: the third cycle's call meets no fault.)
VoteE1 == [name |-> "Ann", id |-> "E1"]

C12_ThreeVotesOneCheckIn ==
  [][/\ (cyc' # NoCycle /\ cyc'.buf \in {<<VoteE1>>, <<VoteE1, VoteE1>>})
          => (call' = NoCall /\ attendance' = attendance /\ cyc'.confirmed = None)
     /\ (cyc' # NoCycle /\ cyc'.buf = <<VoteE1, VoteE1, VoteE1>>
           /\ lastConfirmAt = 0 /\ call'.fault = "none"
           /\ ~\E i \in DOMAIN attendance :
                 attendance[i].emp_id = "E1" /\ attendance[i].check_out = None)
          => /\ cyc'.confirmed = Some(VoteE1)
             /\ call'.empId = "E1" /\ call'.result = "checkin"
             /\ Len(attendance') = Len(attendance) + 1
             /\ SubSeq(attendance', 1, Len(attendance)) = attendance
             /\ attendance'[Len(attendance')].emp_id = "E1"
             /\ attendance'[Len(attendance')].duration = 0
             /\ attendance'[Len(attendance')].check_out = None]_vars

\* The third of three cycles run 500 ms apart from the start of scanning.
C12_Witness ==
  /\ cyc.buf = <<VoteE1, VoteE1, VoteE1>> /\ call.result = "checkin"
  /\ now = StartInstant + 1000
  /\ Len(attendance) = 1 /\ attendance[1].emp_id = "E1" /\ attendance[1].duration = 0

\* C13: after stopScanning - also when it is called while a cycle is
\* suspended mid-flight - the voting buffer is empty, the last confirmed
\* identity and time and the unknown streak are reset and the debounce map is
\* empty, and they stay so until the next startScanning.
C13_StoppedStateStaysClear ==
  ~isScanning =>
    /\ recognitionBuffer = <<>>
    /\ lastRecognizedUser = None
    /\ lastRecognizedTime = 0
    /\ nullStreak = 0
    /\ \A n \in DOMAIN recentScans : recentScans[n] = 0

C14_NoEventAfterStop ==
  [][(inFlight > 0 /\ ~isScanning /\ inFlight' = inFlight - 1)
     => /\ cyc'.confirmed = None
        /\ ~cyc'.unknownEvent
        /\ call' = NoCall
        /\ attendance' = attendance]_vars

\* C15: at every moment at most one scanning cycle is in flight (on the
\* device): a new cycle starts only after the previous cycle has run to
\* completion.
C15_OneCycleInFlight == inFlight + orphans <= 1

\* Within one screen instance the cycles do follow one another.
C15_OneCyclePerScreen == inFlight <= 1

\* C16: if a scanning session is still active 10 minutes after its
\* startScanning, the session timeout stops it whatever the engine state
\* (cycle in flight or idle, inside the protection window or not): scanning
\* becomes inactive, the engine state is cleared, and no new cycle is
\* started afterwards.  (Under Spec scanning starts at StartInstant.)
C16_SessionTimeoutStops ==
  /\ (isScanning /\ now >= StartInstant + 10 * 60 * 1000) ~> ~isScanning
  /\ [][(isScanning /\ ~isScanning' /\ mounted')
          => /\ now >= StartInstant + 10 * 60 * 1000
             /\ recognitionBuffer' = <<>>
             /\ lastRecognizedUser' = None
             /\ lastRecognizedTime' = 0
             /\ nullStreak' = 0
             /\ \A n \in DOMAIN recentScans' : recentScans'[n] = 0
             /\ scanTimer' = 0]_vars
  /\ [][inFlight' > inFlight => isScanning']_vars

\* The timeout has just stopped a session that had confirmed an identity
\* and had a cycle in flight.
C16_Witness ==
  /\ ~isScanning /\ mounted /\ inFlight = 1 /\ cyc = NoCycle
  /\ now = StartInstant + 10 * 60 * 1000
  /\ lastConfirmAt # 0 /\ lastRecognizedTime = 0
  /\ recognitionBuffer = <<>> /\ scanTimer = 0

\* C18: a cycle whose frame is faulty (the capture or the detection throws,
\* or no crop of the frame gives a usable embedding) decides nothing: no
\* identity is confirmed, no Unknown event is raised, nothing is written to
\* the store, and the next cycle is scheduled while scanning is active.
C18_FaultyFrameNoDecision ==
  [][(inFlight' = inFlight - 1 /\ (cyc' = NoCycle \/ cyc'.noEmbedding))
     => /\ cyc'.confirmed = None /\ ~cyc'.unknownEvent
        /\ call' = NoCall /\ attendance' = attendance
        /\ isScanning => scanTimer' = now + 500]_vars

\* The half of C18 about a capture or detection that throws.
C18_ThrowNoDecision ==
  [][(inFlight' = inFlight - 1 /\ cyc' = NoCycle)
     => /\ call' = NoCall /\ attendance' = attendance
        /\ recognitionBuffer' = recognitionBuffer /\ nullStreak' = nullStreak
        /\ isScanning => scanTimer' = now + 500]_vars

(***************************************************************************)
(* The matcher on its own: one probe against a gallery of three employees, *)
(* the first of them with two stored templates.                            *)
(***************************************************************************)
MatchGallery ==
  <<[emp_id |-> "A", name |-> "Ann", embedding |-> <<"a1", "a2">>],
    [emp_id |-> "B", name |-> "Bob", embedding |-> <<"b1">>],
    [emp_id |-> "C", name |-> "Cyd", embedding |-> <<"c1">>]>>

MatchTemplates == {"a1", "a2", "b1", "c1"}

MatchScores == {None} \cup {Some(x) : x \in {0 - 20, 50, 80, 81, 82, 85, 90}}

MatchProbes ==
  {[valid |-> TRUE, sim |-> f] : f \in [MatchTemplates -> MatchScores]}
  \cup {[valid |-> FALSE, sim |-> [t \in MatchTemplates |-> None]]}

NotRun == <<[name |-> "", id |-> "", score |-> 0, margin |-> 0]>>

InitMatch ==
  /\ now = StartInstant
  /\ employees = MatchGallery
  /\ attendance = <<>>
  /\ call = NoCall
  /\ embeddings \in {<<p>> : p \in MatchProbes}
  /\ matches = NotRun
  /\ NoDetection
  /\ NoRegistration
  /\ NoInsert
  /\ NoNormalize
  /\ NoFrame
  /\ NoDetectFaces
  /\ NoAverage
  /\ NoScreen

Match ==
  /\ matches = NotRun
  /\ matches' = processMultiAttendance(embeddings, employees)
  /\ UNCHANGED <<now, employees, storeVars, embeddings, faces, kept, regEmbeddings,
               regAttempts, regOutcome, insertCall, normVars,
                 frameVars, detectVars, avgVars, scanVars>>

NextMatch == Match

SpecMatch == InitMatch /\ [][NextMatch]_vars

\* C3: for one probe and any gallery, the matcher accepts employee E exactly
\* when E's score (the best cosine similarity over E's templates) is the
\* highest of all employees, is >= 0.82 and exceeds the best score of every
\* other employee by >= 0.10; in every other case the probe is rejected.
ScoresOf(probe, emp) ==
  {probe.sim[emp.embedding[k]][1] :
     k \in {j \in DOMAIN emp.embedding : probe.sim[emp.embedding[j]] # None}}

ShouldAccept(probe, emps, i) ==
  /\ probe.valid
  /\ ScoresOf(probe, emps[i]) # {}
  /\ SetMax(ScoresOf(probe, emps[i])) >= 82
  /\ \A j \in DOMAIN emps :
       (j # i /\ ScoresOf(probe, emps[j]) # {})
         => SetMax(ScoresOf(probe, emps[i])) - SetMax(ScoresOf(probe, emps[j])) >= 10

C3_MatcherDecision ==
  matches # NotRun =>
    /\ Len(matches) <= 1
    /\ \A i \in DOMAIN employees :
         ShouldAccept(embeddings[1], employees, i)
           <=> (matches # <<>> /\ matches[1].id = employees[i].emp_id
                               /\ matches[1].name = employees[i].name)
    /\ (matches = <<>>)
         <=> ~\E i \in DOMAIN employees : ShouldAccept(embeddings[1], employees, i)

\* The two galleries of the claim: {A: 0.90, B: 0.50} accepts A, and
\* {A: 0.90, B: 0.85} rejects both.
C3_Examples ==
  matches # NotRun =>
    LET p == embeddings[1] IN
    /\ (p.valid /\ p.sim["a1"] = Some(90) /\ p.sim["a2"] = None
          /\ p.sim["b1"] = Some(50) /\ p.sim["c1"] = None)
         => (matches # <<>> /\ matches[1].id = "A")
    /\ (p.valid /\ p.sim["a1"] = Some(90) /\ p.sim["a2"] = None
          /\ p.sim["b1"] = Some(85) /\ p.sim["c1"] = None)
         => matches = <<>>

C3_Matcher == C3_MatcherDecision /\ C3_Examples

\* C, scored last, was accepted with the runner-up (A, on its second
\* template) exactly 0.10 below and a lower-scored B in between.
C3_Witness ==
  /\ matches # NotRun /\ matches # <<>>
  /\ matches[1].id = "C" /\ matches[1].score = 90 /\ matches[1].margin = 10
  /\ embeddings[1].sim["a2"] = Some(80) /\ embeddings[1].sim["b1"] = Some(50)

(***************************************************************************)
(* The detector's suppression step on its own: parseOutput hands nms a     *)
(* list of candidate boxes.                                                *)
(***************************************************************************)
MaxBoxes == 3

\* IoU with the box at the origin: 0.706, 0.45, 0.137, and 0.45 downwards;
\* the boxes at 0, 110 and 220 form a chain.
NmsGeometries ==
  {[x |-> 0, y |-> 0, w |-> 290, h |-> 290],
   [x |-> 50, y |-> 0, w |-> 290, h |-> 290],
   [x |-> 110, y |-> 0, w |-> 290, h |-> 290],
   [x |-> 220, y |-> 0, w |-> 290, h |-> 290],
   [x |-> 0, y |-> 110, w |-> 290, h |-> 290]}

NmsConfs == {70, 80, 90}

FaceResult(i, g, c) ==
  [id |-> i, x |-> g.x, y |-> g.y, w |-> g.w, h |-> g.h, conf |-> c]

InitNms ==
  /\ now = StartInstant
  /\ employees = Gallery
  /\ attendance = <<>>
  /\ call = NoCall
  /\ embeddings = <<>>
  /\ matches = NotRun
  /\ \E n \in 0..MaxBoxes :
       \E gs \in [1..n -> NmsGeometries], cs \in [1..n -> NmsConfs] :
         faces = [i \in 1..n |-> FaceResult(i, gs[i], cs[i])]
  /\ kept = NmsNotRun
  /\ NoRegistration
  /\ NoInsert
  /\ NoNormalize
  /\ NoFrame
  /\ NoDetectFaces
  /\ NoAverage
  /\ NoScreen

Nms ==
  /\ kept = NmsNotRun
  /\ kept' = nms(faces)
  /\ UNCHANGED <<now, employees, storeVars, embeddings, matches, faces, regEmbeddings,
               regAttempts, regOutcome, insertCall, normVars,
                 frameVars, detectVars, avgVars, scanVars>>

NextNms == Nms

SpecNms == InitNms /\ [][NextNms]_vars

\* the overlap test of the claims: intersection over union at least 0.45
Intersection(a, b) ==
  LET wd == Min2(a.x + a.w, b.x + b.w) - Max2(a.x, b.x)
      ht == Min2(a.y + a.h, b.y + b.h) - Max2(a.y, b.y)
  IN IF wd > 0 /\ ht > 0 THEN wd * ht ELSE 0

Overlapping(a, b) ==
  20 * Intersection(a, b) >= 9 * (a.w * a.h + b.w * b.h - Intersection(a, b))

KeptIds == {kept[i].id : i \in DOMAIN kept}

\* C17: nms returns a sub-list of its input in which no two boxes have
\* IoU >= 0.45, and every box it dropped has IoU >= 0.45 with a kept box of
\* equal or higher confidence; given two boxes with IoU >= 0.45 it keeps
\* only the one of higher confidence, given two with IoU below it keeps both.
C17_NmsSuppression ==
  kept # NmsNotRun =>
    /\ \A i \in DOMAIN kept : kept[i].id \in DOMAIN faces /\ kept[i] = faces[kept[i].id]
    /\ \A i, j \in DOMAIN kept : i # j => kept[i].id # kept[j].id
    /\ \A i, j \in DOMAIN kept : i # j => ~Overlapping(kept[i], kept[j])
    /\ \A d \in DOMAIN faces \ KeptIds :
         \E k \in KeptIds :
           Overlapping(faces[d], faces[k]) /\ faces[k].conf >= faces[d].conf
    /\ Len(faces) = 2 =>
         /\ (Overlapping(faces[1], faces[2]) /\ faces[1].conf > faces[2].conf)
              => KeptIds = {1}
         /\ (Overlapping(faces[1], faces[2]) /\ faces[2].conf > faces[1].conf)
              => KeptIds = {2}
         /\ ~Overlapping(faces[1], faces[2]) => KeptIds = {1, 2}

\* C17: three candidates in a chain, the middle one exactly at IoU 0.45 with
\* both neighbours and of the lowest confidence: it is dropped, they stay.
C17_Witness ==
  /\ Len(faces) = 3
  /\ faces[1].x = 0 /\ faces[2].x = 110 /\ faces[3].x = 220
  /\ faces[1].y = 0 /\ faces[2].y = 0 /\ faces[3].y = 0
  /\ faces[2].conf < faces[1].conf /\ faces[2].conf < faces[3].conf
  /\ kept # NmsNotRun
  /\ KeptIds = {1, 3}

(***************************************************************************)
(* Registration on its own: the camera is ready and registerFace has been  *)
(* called.                                                                 *)
(***************************************************************************)
InitReg ==
  /\ now = StartInstant
  /\ employees = Gallery
  /\ attendance = <<>>
  /\ call = NoCall
  /\ embeddings = <<>>
  /\ matches = NotRun
  /\ NoDetection
  /\ regEmbeddings = <<>>
  /\ regAttempts = 0
  /\ regOutcome = RegEnded("capturing", None)
  /\ NoInsert
  /\ NoNormalize
  /\ NoFrame
  /\ NoDetectFaces
  /\ NoAverage
  /\ NoScreen

\* One pass of the capture loop whose frame is rejected (no face, face too
\* small, no crop, no embedding or one of the wrong length).
RegFrameRejected ==
  /\ regOutcome.status = "capturing"
  /\ Len(regEmbeddings) < TARGET_SAMPLES /\ regAttempts < MAX_ATTEMPTS
  /\ regAttempts' = regAttempts + 1
  /\ UNCHANGED <<now, employees, storeVars, embeddings, matches, faces, kept,
                 regEmbeddings, regOutcome, insertCall, normVars,
                 frameVars, detectVars, avgVars, scanVars>>

\* One pass of the capture loop that accepts the frame's embedding.
RegFrameAccepted ==
  /\ regOutcome.status = "capturing"
  /\ Len(regEmbeddings) < TARGET_SAMPLES /\ regAttempts < MAX_ATTEMPTS
  /\ regAttempts' = regAttempts + 1
  /\ \E emb \in RegSamples : regEmbeddings' = Append(regEmbeddings, emb)
  /\ UNCHANGED <<now, employees, storeVars, embeddings, matches, faces, kept,
                 regOutcome, insertCall, normVars,
                 frameVars, detectVars, avgVars, scanVars>>

\* takePhoto, detectFaces, the crop or the embedder throws: the catch block.
RegThrows ==
  /\ regOutcome.status = "capturing"
  /\ Len(regEmbeddings) < TARGET_SAMPLES /\ regAttempts < MAX_ATTEMPTS
  /\ regAttempts' = regAttempts + 1
  /\ regOutcome' = RegEnded("error", None)
  /\ UNCHANGED <<now, employees, storeVars, embeddings, matches, faces, kept,
                 regEmbeddings, insertCall, normVars,
                 frameVars, detectVars, avgVars, scanVars>>

\* The loop is over: sample count, stability check, averaging, hand-over.
RegEnd ==
  /\ regOutcome.status = "capturing"
  /\ ~(Len(regEmbeddings) < TARGET_SAMPLES /\ regAttempts < MAX_ATTEMPTS)
  /\ \E degenerate \in BOOLEAN :
       regOutcome' = registerFaceEnd(regEmbeddings, degenerate)
  /\ UNCHANGED <<now, employees, storeVars, embeddings, matches, faces, kept,
                 regEmbeddings, regAttempts, insertCall, normVars,
                 frameVars, detectVars, avgVars, scanVars>>

NextReg == RegFrameRejected \/ RegFrameAccepted \/ RegThrows \/ RegEnd

SpecReg == InitReg /\ [][NextReg]_vars

\* the similarity of samples a and b as the claims read it
PairSimilarity(a, b) ==
  IF a = "bad" \/ b = "bad" THEN None
  ELSE IF a = b THEN Some(95)
  ELSE IF "other" \in {a, b} THEN Some(30)
  ELSE IF "front" \in {a, b} THEN Some(80)
  ELSE Some(60)

SamplePairs ==
  {p \in (1..Len(regEmbeddings)) \X (1..Len(regEmbeddings)) : p[1] < p[2]}

PairUndefined ==
  \E p \in SamplePairs :
    PairSimilarity(regEmbeddings[p[1]], regEmbeddings[p[2]]) = None

RECURSIVE SumOver(_)
SumOver(ps) ==
  IF ps = {} THEN 0
  ELSE LET p == CHOOSE q \in ps : TRUE
       IN PairSimilarity(regEmbeddings[p[1]], regEmbeddings[p[2]])[1]
            + SumOver(ps \ {p})

\* mean pairwise similarity below 0.75
MeanBelowThreshold == 4 * SumOver(SamplePairs) < 3 * 100 * Cardinality(SamplePairs)

\* C19: registration hands no template on when a pair of the captured
\* samples has no similarity or the mean similarity over all pairs is below
\* 0.75: it ends rejected; a template handed on is the average of five
\* samples that passed the check.
C19_UnstableRegistrationRejected ==
  /\ (regOutcome.status \notin {"idle", "capturing"}
        /\ (PairUndefined \/ MeanBelowThreshold))
       => /\ regOutcome.template = None
          /\ regOutcome.status \in {"notEnough", "invalidFrame", "unstable", "error"}
  /\ regOutcome.template # None
       => /\ Len(regEmbeddings) = 5
          /\ ~PairUndefined /\ ~MeanBelowThreshold
          /\ regOutcome.status = "navigateRegister"

\* C19: five samples, three to the left and two to the right, mean pairwise
\* similarity 0.74: rejected as unstable.
C19_Witness ==
  /\ regEmbeddings = <<"left", "left", "left", "right", "right">>
  /\ regOutcome = RegEnded("unstable", None)

(***************************************************************************)
(* The employees table on its own: a sequence of insertEmployee calls on   *)
(* an empty table or on the table of two employees.                        *)
(***************************************************************************)
InsertIds == {"E1", "E2", "E3"}

InsertNames == {"Ann", "Cyd"}

InsertEmbeddings == {<<"t1">>, <<"t7">>, BadEmbedding}

InitGallery ==
  /\ now = StartInstant
  /\ employees \in {<<>>, Gallery}
  /\ attendance = <<>>
  /\ call = NoCall
  /\ embeddings = <<>>
  /\ matches = NotRun
  /\ NoDetection
  /\ NoRegistration
  /\ NoInsert
  /\ NoNormalize
  /\ NoFrame
  /\ NoDetectFaces
  /\ NoAverage
  /\ NoScreen

InsertEmployeeCall ==
  /\ \E empId \in InsertIds, name \in InsertNames, embedding \in InsertEmbeddings,
        fault \in InsertFaults :
       LET r == insertEmployee(empId, name, embedding, fault, employees)
       IN /\ employees' = r.store
          /\ insertCall' = [empId |-> empId, name |-> name, embedding |-> embedding,
                            fault |-> fault, result |-> r.result]
  /\ UNCHANGED <<now, storeVars, embeddings, matches, faces, kept, regEmbeddings,
                 regAttempts, regOutcome, normVars,
                 frameVars, detectVars, avgVars, scanVars>>

NextGallery == InsertEmployeeCall

SpecGallery == InitGallery /\ [][NextGallery]_vars

StoredIds == {employees[i].emp_id : i \in DOMAIN employees}

IdsUnique ==
  \A i, j \in DOMAIN employees : i # j => employees[i].emp_id # employees[j].emp_id

\* C20 as stated: an insert with an employeeId that is already stored fails
\* with the duplicate-id error and leaves the table unchanged, and no
\* employeeId is ever stored twice (store working).
C20_DuplicateIdError ==
  /\ [][(insertCall' # NoInsertCall /\ insertCall'.fault = "none"
           /\ insertCall'.empId \in StoredIds)
         => /\ insertCall'.result = "EMPLOYEE_EXISTS"
            /\ employees' = employees]_vars
  /\ []IdsUnique

\* C20 amended: an insert with an employeeId that is already stored always
\* fails and leaves the table unchanged; the error is the duplicate-id error
\* when the embedding is valid and the store answers, the invalid-embedding
\* error when the embedding is invalid; no employeeId is ever stored twice.
C20_DuplicateIdFails ==
  /\ [][(insertCall' # NoInsertCall /\ insertCall'.empId \in StoredIds)
         => /\ insertCall'.result # "ok"
            /\ employees' = employees
            /\ insertCall'.embedding \in {<<>>, <<"nan">>}
                 => insertCall'.result = "INVALID_EMBEDDING"
            /\ (insertCall'.embedding \notin {<<>>, <<"nan">>}
                  /\ insertCall'.fault = "none")
                 => insertCall'.result = "EMPLOYEE_EXISTS"]_vars
  /\ []IdsUnique

\* C20: E1 is stored as Ann; an insert of E1 as Cyd with another valid
\* embedding has just failed with the duplicate-id error, after E3 was added.
C20_Witness ==
  /\ insertCall.empId = "E1" /\ insertCall.name = "Cyd"
  /\ insertCall.embedding = <<"t7">>
  /\ insertCall.result = "EMPLOYEE_EXISTS"
  /\ Len(employees) = 3
  /\ employees[1] = [emp_id |-> "E1", name |-> "Ann", embedding |-> <<"t1">>]

(***************************************************************************)
(* l2Normalize on its own: a vector is normalised, and the result is       *)
(* normalised once more.                                                   *)
(***************************************************************************)
MaxDim == 3

NormPlaces == {0, 7}

NormComponents ==
  {Num(v) : v \in {0 - 3, 0, 1, 3, 5, 8}}
  \cup {[kind |-> k, val |-> 0] : k \in {"big", "nan", "inf", "ninf"}}

InitNorm ==
  /\ now = StartInstant
  /\ employees = Gallery
  /\ attendance = <<>>
  /\ call = NoCall
  /\ embeddings = <<>>
  /\ matches = NotRun
  /\ NoDetection
  /\ NoRegistration
  /\ NoInsert
  /\ \E n \in 0..MaxDim, places \in NormPlaces :
       \E xs \in [1..n -> NormComponents] :
         normIn = Some([places |-> places, xs |-> xs])
  /\ normOut = NormNotRun
  /\ normAgain = NormNotRun
  /\ NoFrame
  /\ NoDetectFaces
  /\ NoAverage
  /\ NoScreen

Normalize ==
  /\ normOut = NormNotRun
  /\ normOut' = l2Normalize(normIn)
  /\ UNCHANGED <<now, employees, storeVars, embeddings, matches, faces, kept,
                 regEmbeddings, regAttempts, regOutcome, insertCall, normIn,
                 normAgain, frameVars, detectVars, avgVars, scanVars>>

NormalizeAgain ==
  /\ normOut # NormNotRun /\ normAgain = NormNotRun
  /\ normAgain' = l2Normalize(normOut)
  /\ UNCHANGED <<now, employees, storeVars, embeddings, matches, faces, kept,
                 regEmbeddings, regAttempts, regOutcome, insertCall, normIn,
                 normOut, frameVars, detectVars, avgVars, scanVars>>

NextNorm == Normalize \/ NormalizeAgain

SpecNorm == InitNorm /\ [][NextNorm]_vars

InXs == normIn[1].xs

InEmpty == InXs = <<>>

InNonFinite == \E i \in DOMAIN InXs : InXs[i].kind \in {"nan", "inf", "ninf"}

InOverflows == \E i \in DOMAIN InXs : InXs[i].kind = "big"

RECURSIVE SquaresOf(_)
SquaresOf(xs) ==
  IF xs = <<>> THEN 0 ELSE Head(xs).val * Head(xs).val + SquaresOf(Tail(xs))

\* the L2 norm of the input is below 1e-6: components in units of 1e-7 with
\* squares summing to less than 100, or all components 0
InNearZero ==
  /\ ~InNonFinite /\ ~InOverflows
  /\ IF normIn[1].places = 7 THEN SquaresOf(InXs) < 100 ELSE SquaresOf(InXs) = 0

\* C21: l2Normalize returns null, never a vector, for an empty vector, for
\* a vector of norm below 1e-6 and for a vector containing NaN, +Infinity
\* or -Infinity.
C21_InvalidVectorRejected ==
  (normOut # NormNotRun /\ (InEmpty \/ InNonFinite \/ InNearZero))
    => normOut = None

\* C21: the vector (8, 5, 3) * 1e-7, of norm 9.9e-7, was refused.
C21_Witness ==
  /\ normIn = Some([places |-> 7, xs |-> <<Num(8), Num(5), Num(3)>>])
  /\ normOut = None

InValid == ~InEmpty /\ ~InNonFinite /\ ~InNearZero

\* the squared norm of the returned vector is within [0.99^2, 1.01^2]
OutNormInRange ==
  /\ 980100 <= SquaresOf(normOut[1].xs)
  /\ SquaresOf(normOut[1].xs) <= 1020100

MaxFaces == 5

FrameProbe(a1, a2, b1, c1) ==
  [valid |-> TRUE,
   sim |-> [t \in MatchTemplates |->
              IF t = "a1" THEN a1 ELSE IF t = "a2" THEN a2
              ELSE IF t = "b1" THEN b1 ELSE c1]]

FrameFace(cropped, emb) == [cropped |-> cropped, emb |-> emb]

\* What one detected face may give: no crop, no usable embedding, an
\* embedding l2Normalize refuses, and embeddings that match A through its
\* second template only, that match B while no template of A can be
\* compared, that match C, and that are ambiguous between A and B.
FrameFaces ==
  { FrameFace(FALSE, None),
    FrameFace(TRUE, None),
    FrameFace(TRUE, Some([valid |-> FALSE, sim |-> [t \in MatchTemplates |-> None]])),
    FrameFace(TRUE, Some(FrameProbe(None, Some(90), Some(50), None))),
    FrameFace(TRUE, Some(FrameProbe(None, None, Some(90), Some(50)))),
    FrameFace(TRUE, Some(FrameProbe(Some(50), None, Some(81), Some(95)))),
    FrameFace(TRUE, Some(FrameProbe(Some(90), None, Some(85), None))) }

InitFrame ==
  /\ now = StartInstant
  /\ employees = MatchGallery
  /\ attendance = <<>>
  /\ call = NoCall
  /\ embeddings = <<>>
  /\ matches = NotRun
  /\ NoDetection
  /\ NoRegistration
  /\ NoInsert
  /\ NoNormalize
  /\ \E n \in 1..MaxFaces : frameFaces \in [1..n -> FrameFaces]
  /\ frameVote = NoVote
  /\ NoDetectFaces
  /\ NoAverage
  /\ NoScreen

ProcessFrame ==
  /\ frameVote = NoVote
  /\ embeddings' = detectedEmbeddingsOf(frameFaces)
  /\ matches' = processMultiAttendance(embeddings', employees)
  /\ frameVote' = VoteOf(matches')
  /\ UNCHANGED <<now, employees, storeVars, faces, kept, regEmbeddings, regAttempts,
                 regOutcome, insertCall, normVars, frameFaces, detectVars, avgVars, scanVars>>

NextFrame == ProcessFrame

SpecFrame == InitFrame /\ [][NextFrame]_vars

\* face f matched employee i: it was cropped and embedded, and its embedding
\* is one the matcher is to accept for i
FaceMatched(f, i) ==
  f.cropped /\ f.emb # None /\ ShouldAccept(f.emb[1], employees, i)

\* the positions, among the first four, of the faces that matched
MatchedFaces ==
  {k \in 1..Min2(Len(frameFaces), 4) :
     \E i \in DOMAIN employees : FaceMatched(frameFaces[k], i)}

\* C28: a cycle with at least one detected face pushes one vote: at most the
\* first 4 faces in detector order are embedded and matched, the vote is the
\* identity matched by the first (largest) of those faces that matched, and
\* it is unknown exactly when none of them matched.
C28_VoteOfLargestMatchedFace ==
  frameVote # NoVote =>
    /\ Len(embeddings) <= 4
    /\ \A k \in DOMAIN embeddings :
         \E j \in 1..Min2(Len(frameFaces), 4) : frameFaces[j].emb = Some(embeddings[k])
    /\ (frameVote = Unknown) <=> (MatchedFaces = {})
    /\ MatchedFaces # {} =>
         \E i \in DOMAIN employees :
           /\ FaceMatched(frameFaces[SetMin(MatchedFaces)], i)
           /\ frameVote = [name |-> employees[i].name, id |-> employees[i].emp_id]

\* Five faces: the largest gave no crop, the second matched nobody, the
\* third matched B, the fourth A and the fifth C; the vote is B.
C28_Witness ==
  /\ frameVote = [name |-> "Bob", id |-> "B"]
  /\ Len(frameFaces) = 5
  /\ ~frameFaces[1].cropped
  /\ MatchedFaces = {3, 4}
  /\ FaceMatched(frameFaces[4], 1)
  /\ FaceMatched(frameFaces[5], 3)

\* the employees whose match the probes embs[1..n] are to yield, in probe
\* order: none for a probe that fails normalization, and for every other
\* probe the employee accepted on the templates the probe can be compared
\* with
RECURSIVE ExpectedIds(_, _)
ExpectedIds(embs, n) ==
  IF n = 0 THEN <<>>
  ELSE ExpectedIds(embs, n - 1)
         \o (IF ~embs[n].valid THEN <<>>
             ELSE IF \E i \in DOMAIN employees : ShouldAccept(embs[n], employees, i)
             THEN <<employees[CHOOSE i \in DOMAIN employees :
                                ShouldAccept(embs[n], employees, i)].emp_id>>
             ELSE <<>>)

\* C30: a probe that fails normalization yields no match and the remaining
\* probes of the cycle are still evaluated; a template that cannot be
\* compared with the probe contributes no score, so an accepted employee was
\* accepted on the score of a template the probe could be compared with.
C30_BadVectorsSkipped ==
  frameVote # NoVote =>
    /\ [k \in DOMAIN matches |-> matches[k].id] = ExpectedIds(embeddings, Len(embeddings))
    /\ \A k \in DOMAIN matches :
         \E j \in DOMAIN embeddings, i \in DOMAIN employees :
           /\ employees[i].emp_id = matches[k].id
           /\ embeddings[j].valid
           /\ matches[k].score \in ScoresOf(embeddings[j], employees[i])

\* The first probe failed normalization, the second could be compared with
\* no template of A and matched B, the third matched A on A's second
\* template, the first being incomparable.
C30_Witness ==
  /\ frameVote # NoVote
  /\ Len(embeddings) = 3
  /\ ~embeddings[1].valid
  /\ embeddings[2].valid /\ ScoresOf(embeddings[2], employees[1]) = {}
  /\ embeddings[3].valid /\ embeddings[3].sim["a1"] = None
  /\ [k \in DOMAIN matches |-> matches[k].id] = <<"B", "A">>

(***************************************************************************)
(* One detectFaces call: a photo, the rows of the detector's output for    *)
(* it, and what the native call does.                                      *)
(***************************************************************************)
MaxRows == 3

TensorRow(x, y, w, h, conf) == [x |-> x, y |-> y, w |-> w, h |-> h, conf |-> conf]

\* Rows for a photo of 200 x 200: inside the photo; reaching over the right
\* edge by 40; starting left of the photo; fitting exactly into the lower
\* right corner; narrower than MIN_BOX_SIZE; starting on the right edge;
\* larger than the photo; below CONF_THRESHOLD; next to the first one; of
\* the area of the third and fourth and more confident; confidence above 1.
DetectRows ==
  { TensorRow(10, 10, 100, 100, 90),
    TensorRow(150, 10, 90, 90, 80),
    TensorRow(0 - 20, 0, 100, 80, 70),
    TensorRow(100, 120, 100, 80, 60),
    TensorRow(10, 10, 79, 100, 90),
    TensorRow(200, 0, 100, 100, 90),
    TensorRow(0, 0, 300, 300, 50),
    TensorRow(10, 10, 100, 100, 20),
    TensorRow(20, 10, 100, 100, 85),
    TensorRow(0, 100, 80, 100, 95),
    TensorRow(0, 0, 100, 100, 120) }

Photos == {[origW |-> 200, origH |-> 200]}

InitDetect ==
  /\ now = StartInstant
  /\ employees = Gallery
  /\ attendance = <<>>
  /\ call = NoCall
  /\ embeddings = <<>>
  /\ matches = NotRun
  /\ NoDetection
  /\ NoRegistration
  /\ NoInsert
  /\ NoNormalize
  /\ NoFrame
  /\ \E photo \in Photos, n \in 0..MaxRows :
       \E rows \in [1..n -> DetectRows] :
         tensor = [origW |-> photo.origW, origH |-> photo.origH, rows |-> rows]
  /\ nativeFault \in NativeFaults
  /\ detected = DetectNotRun
  /\ NoAverage
  /\ NoScreen

DetectFacesCall ==
  /\ detected = DetectNotRun
  /\ detected' = detectFaces(tensor.rows, tensor.origW, tensor.origH, nativeFault)
  /\ UNCHANGED <<now, employees, storeVars, embeddings, matches, faces, kept,
                 regEmbeddings, regAttempts, regOutcome, insertCall, normVars,
                 frameVars, tensor, nativeFault, avgVars, scanVars>>

NextDetect == DetectFacesCall

SpecDetect == InitDetect /\ [][NextDetect]_vars

\* C31: every box the postprocessor emits has a final width and height of at
\* least the minimum pixel size; a box that clamping shrinks below it is
\* dropped.
C31_FinalSizeAtLeastMinimum ==
  detected # DetectNotRun =>
    \A k \in DOMAIN detected : detected[k].width >= MIN_BOX_SIZE /\ detected[k].height >= MIN_BOX_SIZE

\* C32: every delivered box lies inside the photo, has positive width and
\* height and a confidence in [0, 1]; a failing native call gives the empty
\* list, and no more boxes are delivered than the tensor has rows.
C32_BoxesInsideImage ==
  detected # DetectNotRun =>
    /\ \A k \in DOMAIN detected :
         LET f == detected[k] IN
         /\ f.x >= 0 /\ f.y >= 0
         /\ f.x + f.width <= tensor.origW /\ f.y + f.height <= tensor.origH
         /\ f.width > 0 /\ f.height > 0
         /\ f.confidence >= 0 /\ f.confidence <= 100
    /\ nativeFault # "none" => detected = <<>>
    /\ Len(detected) <= Len(tensor.rows)

\* The row larger than the photo was delivered cut to the photo, and the row
\* with a confidence above 1 was not delivered.
C32_Witness ==
  /\ detected = <<[x |-> 0, y |-> 0, width |-> 200, height |-> 200, confidence |-> 50]>>
  /\ \E k \in DOMAIN tensor.rows : tensor.rows[k].conf > 100
  /\ \E k \in DOMAIN tensor.rows : tensor.rows[k].w = 300

\* C33: the delivered list is ordered by area descending, and boxes of equal
\* area are in confidence-descending order.
C33_LargestFirst ==
  detected # DetectNotRun =>
    \A i, j \in DOMAIN detected :
      i < j =>
        /\ detected[i].width * detected[i].height >= detected[j].width * detected[j].height
        /\ detected[i].width * detected[i].height = detected[j].width * detected[j].height
             => detected[i].confidence >= detected[j].confidence

\* Three boxes of equal area are delivered most confident first although
\* the tensor had them in the opposite order.
C33_Witness ==
  /\ Len(detected) = 3
  /\ \A k \in 1..3 : detected[k].width * detected[k].height = 8000
  /\ detected[1].confidence = 95 /\ detected[3].confidence = 60
  /\ tensor.rows[1].conf = 60 /\ tensor.rows[3].conf = 95

(***************************************************************************)
(* One averageEmbedding call on a list of embeddings.                      *)
(***************************************************************************)
MaxSamples == 2

AvgDims == {0, 1, 2}

AvgPlaces == {0, 7}

AvgComponents ==
  {Num(v) : v \in {0 - 3, 0, 4}} \cup {[kind |-> k, val |-> 0] : k \in {"nan", "inf"}}

AvgVectors == UNION {[1..d -> AvgComponents] : d \in AvgDims}

InitAvg ==
  /\ now = StartInstant
  /\ employees = Gallery
  /\ attendance = <<>>
  /\ call = NoCall
  /\ embeddings = <<>>
  /\ matches = NotRun
  /\ NoDetection
  /\ NoRegistration
  /\ NoInsert
  /\ NoNormalize
  /\ NoFrame
  /\ NoDetectFaces
  /\ \E n \in 0..MaxSamples, places \in AvgPlaces :
       \E embs \in [1..n -> AvgVectors] : avgIn = [places |-> places, embs |-> embs]
  /\ avgOut = AvgNotRun
  /\ NoScreen

AverageEmbeddingCall ==
  /\ avgOut = AvgNotRun
  /\ avgOut' = averageVectors(avgIn)
  /\ UNCHANGED <<now, employees, storeVars, embeddings, matches, faces, kept,
                 regEmbeddings, regAttempts, regOutcome, insertCall, normVars,
                 frameVars, detectVars, avgIn, scanVars>>

NextAvg == AverageEmbeddingCall

SpecAvg == InitAvg /\ [][NextAvg]_vars

\* the sum of component i over all the embeddings handed in
RECURSIVE InputSum(_, _)
InputSum(i, k) == IF k = 0 THEN 0 ELSE InputSum(i, k - 1) + avgIn.embs[k][i].val

\* the squared length of the sum vector
RECURSIVE InputSumSquared(_)
InputSumSquared(d) ==
  IF d = 0 THEN 0
  ELSE InputSumSquared(d - 1)
         + InputSum(d, Len(avgIn.embs)) * InputSum(d, Len(avgIn.embs))

AvgEmpty == avgIn.embs = <<>>

AvgDimensionDiffers ==
  \E e \in DOMAIN avgIn.embs : Len(avgIn.embs[e]) # Len(avgIn.embs[1])

AvgNonFinite ==
  \E e \in DOMAIN avgIn.embs : \E i \in DOMAIN avgIn.embs[e] :
    avgIn.embs[e][i].kind \in {"nan", "inf", "ninf"}

\* the norm of the mean, |sum| / (n * 10^places), is below 1e-6
AvgMeanNearZero ==
  LET n == Len(avgIn.embs)
      ss == InputSumSquared(Len(avgIn.embs[1]))
  IN IF 2 * avgIn.places >= 12
     THEN ss < n * n * Pow10(2 * avgIn.places - 12)
     ELSE ss = 0

AvgShouldFail ==
  AvgEmpty \/ AvgDimensionDiffers \/ AvgNonFinite \/ AvgMeanNearZero

\* xs is the sum of all the inputs scaled to unit length, to two units of
\* its third decimal place, and its norm is in [0.99, 1.01]
AvgIsNormalizedMean(xs) ==
  LET d == Len(avgIn.embs[1])
      n == Len(avgIn.embs)
      len1000 == SqrtFloor(InputSumSquared(d) * 1000000, 0, SqrtMax)
      sq == SumSquares(xs, Len(xs))
  IN /\ Len(xs) = d
     /\ \A i \in 1..d :
          /\ xs[i].kind = "num"
          /\ Abs(xs[i].val * len1000 - 1000000 * InputSum(i, n)) <= 2 * len1000
     /\ sq >= 980100 /\ sq <= 1020100

\* C34: averageEmbedding returns null for an empty list, for embeddings of
\* differing dimension, for a non-finite component and for a mean of
\* near-zero norm, and in every other case the normalised element-wise mean
\* of all the inputs.
C34_AverageOrNull ==
  avgOut # AvgNotRun =>
    /\ (avgOut = None) <=> AvgShouldFail
    /\ avgOut # None => avgOut[1].places = OutPlaces /\ AvgIsNormalizedMean(avgOut[1].xs)

\* The mean of (4, 0) and (-3, 4), which is (0.5, 2), was returned scaled to
\* unit length: its second component is 0.970.
C34_Witness ==
  /\ avgIn = [places |-> 0, embs |-> <<<<Num(4), Num(0)>>, <<Num(0 - 3), Num(4)>>>>]
  /\ avgOut \notin {None, AvgNotRun}
  /\ avgOut[1].xs[2] = Num(970)

====
